---- MODULE Spec2Model ----
(***************************************************************************)
(* Model of the scholar-helper rewards tracker (src/scholar-helper/app.py  *)
(* and src/splinterlands-tools/scholar_helper/services/storage.py).        *)
(*                                                                         *)
(* Conventions.                                                            *)
(*  - A Python float is a natural number 0..MaxFloat with a significand   *)
(*    of MantissaBits bits, or PosInf for a non-finite value.  A sum or    *)
(*    product is rounded to the nearest such number, ties to even, and     *)
(*    overflows to PosInf above MaxFloat, as IEEE doubles do (with 53 bits *)
(*    and 1.8e308).  Every integer up to 2^MantissaBits is exact.          *)
(*  - A Python str that carries data to be parsed is a sequence of         *)
(*    lexemes (TLA+ strings): <<"3">> is the text 3, <<"{", "SPS", ":",    *)
(*    "1", "}">> is the JSON text {"SPS": 1}.  Token symbols, currencies   *)
(*    and player names are TLA+ strings with explicit case tables.         *)
(*  - A Python dict is a sequence of <<key, value>> pairs with distinct    *)
(*    keys, in insertion order; two dicts are equal when AsMap agrees.     *)
(*  - A JSON/Python value of unknown type is a record with a field t.      *)
(***************************************************************************)
EXTENDS Integers, Sequences, FiniteSets, TLC

VARIABLES
    op,           \* the step the run is at
    input,        \* what the operation is given
    output,       \* what it returned or displayed
    cache,        \* the st.cache_data entries of the four cached fetchers
    store,        \* the rows of the Supabase tables
    _last_error   \* storage._last_error

vars == <<op, input, output, cache, store, _last_error>>

(* ------------------------------ bounds -------------------------------- *)

\* Largest token amount / USD figure drawn as an input.
MaxAmount == 2

\* Largest finite float of the model; anything above is PosInf.
MaxFloat == 100000

PosInf == MaxFloat + 1

\* Bits of the significand of a float.
MantissaBits == 12

\* The largest n such that every integer in 0..n is a float.
ExactLimit == 2 ^ MantissaBits

\* The value of output before the operation has run.
NoOutput == [k |-> "pending"]

\* A cache entry that is absent, and one that holds v.
Miss == [k |-> "miss"]

Hit(v) == [k |-> "hit", v |-> v]

\* The accounts the pages are asked about.
Users == {"lorkus", "vorkus"}

\* The process before any fetch or storage call: the four caches are empty,
\* the tables hold no row, _last_error is None.
\* The four fetch caches with no entry.
EmptyCache ==
    [season |-> Miss, prices |-> Miss,
     rewards |-> [u \in Users |-> Miss], tournaments |-> [u \in Users |-> Miss]]

NoSession ==
    /\ cache = EmptyCache
    /\ store = [season_rewards |-> {}, tournament_logs |-> {}]
    /\ _last_error = "None"

(* ------------------------- float arithmetic --------------------------- *)

\* The spacing of the floats around x: 1 up to ExactLimit, then doubling.
RECURSIVE Ulp(_, _)
Ulp(x, u) == IF x < ExactLimit * u THEN u ELSE Ulp(x, 2 * u)

\* The float nearest to the real number x, ties to the even significand.
RoundFloat(x) ==
    LET u == Ulp(x, 1)
        q == x \div u
        r == x % u
    IN  IF 2 * r < u THEN q * u
        ELSE IF 2 * r > u THEN (q + 1) * u
        ELSE IF q % 2 = 0 THEN q * u ELSE (q + 1) * u

\* a + b on floats.
FAdd(a, b) ==
    IF a = PosInf \/ b = PosInf THEN PosInf
    ELSE IF RoundFloat(a + b) > MaxFloat THEN PosInf ELSE RoundFloat(a + b)

\* a * b on finite floats.
FMul(a, b) == IF RoundFloat(a * b) > MaxFloat THEN PosInf ELSE RoundFloat(a * b)

(* ---------------------------- str.upper ------------------------------- *)

\* Every symbol, currency and player name of the model.
Names == {"SPS", "sps", "Sps", "DEC", "dec", "ETH", "eth", "Eth", "USD", "usd",
          "Alice", "alice", "ALICE", "bob", "BOB",
          "GLX", "glx", "CREDITS", "credits", "HIVE", "BTC", "VOUCHER"}

UpperTable ==
    ("SPS" :> "SPS") @@ ("sps" :> "SPS") @@ ("Sps" :> "SPS") @@
    ("DEC" :> "DEC") @@ ("dec" :> "DEC") @@
    ("ETH" :> "ETH") @@ ("eth" :> "ETH") @@ ("Eth" :> "ETH") @@
    ("USD" :> "USD") @@ ("usd" :> "USD") @@
    ("Alice" :> "ALICE") @@ ("alice" :> "ALICE") @@ ("ALICE" :> "ALICE") @@
    ("bob" :> "BOB") @@ ("BOB" :> "BOB") @@
    ("GLX" :> "GLX") @@ ("glx" :> "GLX") @@ ("CREDITS" :> "CREDITS") @@
    ("credits" :> "CREDITS") @@ ("HIVE" :> "HIVE") @@ ("BTC" :> "BTC") @@
    ("VOUCHER" :> "VOUCHER")

LowerTable ==
    ("SPS" :> "sps") @@ ("sps" :> "sps") @@ ("Sps" :> "sps") @@
    ("DEC" :> "dec") @@ ("dec" :> "dec") @@
    ("ETH" :> "eth") @@ ("eth" :> "eth") @@ ("Eth" :> "eth") @@
    ("USD" :> "usd") @@ ("usd" :> "usd") @@
    ("Alice" :> "alice") @@ ("alice" :> "alice") @@ ("ALICE" :> "alice") @@
    ("bob" :> "bob") @@ ("BOB" :> "bob") @@
    ("GLX" :> "glx") @@ ("glx" :> "glx") @@ ("CREDITS" :> "credits") @@
    ("credits" :> "credits") @@ ("HIVE" :> "hive") @@ ("BTC" :> "btc") @@
    ("VOUCHER" :> "voucher")

Upper(s) == UpperTable[s]

Lower(s) == LowerTable[s]

(* ------------------------------- dict --------------------------------- *)

EmptyDict == << >>

DictKeys(d) == {d[i][1] : i \in DOMAIN d}

DictIndex(d, k) == CHOOSE i \in DOMAIN d : d[i][1] = k

\* d.get(k, default)
DictGet(d, k, default) == IF k \in DictKeys(d) THEN d[DictIndex(d, k)][2] ELSE default

\* d[k] = v : an existing key keeps its position, a new key is appended.
DictSet(d, k, v) ==
    IF k \in DictKeys(d)
    THEN [d EXCEPT ![DictIndex(d, k)] = <<k, v>>]
    ELSE Append(d, <<k, v>>)

\* The mapping a dict denotes (dict equality ignores insertion order).
AsMap(d) == [k \in DictKeys(d) |-> DictGet(d, k, 0)]

\* All dicts with keys from K (each at most once, any order) and values from V.
RECURSIVE DictsOver(_, _)
DictsOver(K, V) ==
    {EmptyDict} \cup
    UNION {{<<<<k, v>>>> \o rest : v \in V, rest \in DictsOver(K \ {k}, V)} : k \in K}

(* ------------------------- JSON / Python values ----------------------- *)

Null == [t |-> "null"]

VBool(b) == [t |-> "bool", b |-> b]

VInt(n) == [t |-> "int", v |-> n]

VFloat(x) == [t |-> "float", v |-> x]

VStr(s) == [t |-> "str", s |-> s]

VList(items) == [t |-> "list", items |-> items]

VDict(d) == [t |-> "dict", d |-> d]

\* bool(value): Python truthiness.
Truthy(value) ==
    CASE value.t = "null" -> FALSE
      [] value.t = "bool" -> value.b
      [] value.t \in {"int", "float"} -> value.v # 0
      [] value.t = "str" -> Len(value.s) > 0
      [] value.t = "list" -> Len(value.items) > 0
      [] value.t = "dict" -> Len(value.d) > 0

\* record.get(field): None for a missing key.
RecGet(record, field) == IF field \in DOMAIN record THEN record[field] ELSE Null

(* ------------------------- number <-> text ---------------------------- *)

\* Largest number written out as text in the model.
MaxLiteral == 4 * MaxAmount

\* repr of a number, as json.dumps and str() write it.
NumLex(n) == IF n = PosInf THEN "inf" ELSE ToString(n)

IsNumLex(lex) == \E n \in 0..MaxLiteral : ToString(n) = lex

LexNumber(lex) == CHOOSE n \in 0..MaxLiteral : ToString(n) = lex

Ok(v) == [ok |-> TRUE, v |-> v]

Fail == [ok |-> FALSE, v |-> 0]

\* float(str): a decimal literal or "inf"; anything else is a ValueError.
ParseFloat(s) ==
    IF Len(s) = 1 /\ IsNumLex(s[1]) THEN Ok(LexNumber(s[1]))
    ELSE IF Len(s) = 1 /\ s[1] = "inf" THEN Ok(PosInf)
    ELSE Fail

\* int(str): a decimal literal; anything else is a ValueError.
ParseInt(s) == IF Len(s) = 1 /\ IsNumLex(s[1]) THEN Ok(LexNumber(s[1])) ELSE Fail

(* ----------------------------- json.loads ----------------------------- *)

\* Quoted JSON strings that may stand as a member value.
QuotedTable == ("\"x\"" :> <<"x">>) @@ ("\"2\"" :> <<"2">>)

IsValueLex(lex) == IsNumLex(lex) \/ lex = "null" \/ lex \in DOMAIN QuotedTable

LexValue(lex) ==
    IF IsNumLex(lex) THEN VInt(LexNumber(lex))
    ELSE IF lex = "null" THEN Null
    ELSE VStr(QuotedTable[lex])

\* Members of an object from position i on: key ":" value ("," key ":" value)*
\* up to the closing brace at Len(s); a repeated key keeps its first position
\* and takes the last value.
RECURSIVE ParseMembers(_, _, _)
ParseMembers(s, i, acc) ==
    IF i + 3 > Len(s) THEN Fail
    ELSE IF ~(s[i] \in Names /\ s[i + 1] = ":" /\ IsValueLex(s[i + 2])) THEN Fail
    ELSE LET next == DictSet(acc, s[i], LexValue(s[i + 2]))
         IN  IF i + 3 = Len(s) THEN Ok(VDict(next))
             ELSE IF s[i + 3] = "," THEN ParseMembers(s, i + 4, next)
             ELSE Fail

json_loads(s) ==
    IF Len(s) = 0 THEN Fail
    ELSE IF s[1] = "{" THEN
        IF s[Len(s)] # "}" \/ Len(s) < 2 THEN Fail
        ELSE IF Len(s) = 2 THEN Ok(VDict(EmptyDict))
        ELSE ParseMembers(s, 2, EmptyDict)
    ELSE IF s[1] = "[" THEN
        IF Len(s) = 2 /\ s[2] = "]" THEN Ok(VList(<< >>)) ELSE Fail
    ELSE IF Len(s) = 1 /\ IsValueLex(s[1]) THEN Ok(LexValue(s[1]))
    ELSE Fail

\* json.dumps of a token map (str -> float).
RECURSIVE DumpMembers(_, _)
DumpMembers(d, i) ==
    IF i > Len(d) THEN << >>
    ELSE (IF i > 1 THEN <<",">> ELSE << >>)
         \o <<d[i][1], ":", NumLex(d[i][2])>> \o DumpMembers(d, i + 1)

json_dumps(d) == <<"{">> \o DumpMembers(d, 1) \o <<"}">>

(* ------------------------- numeric coercion --------------------------- *)

\* float(value) for a value float() accepts without parsing.
FloatOf(value) == IF value.t = "bool" THEN (IF value.b THEN 1 ELSE 0) ELSE value.v

_safe_float(value, default) ==
    IF value.t = "null" THEN default
    ELSE IF value.t \in {"float", "int", "bool"} THEN FloatOf(value)
    ELSE IF value.t = "str" THEN
        (IF ParseFloat(value.s).ok THEN ParseFloat(value.s).v ELSE default)
    ELSE default

(* ----------------------- snapshot reconstruction ---------------------- *)

\* float(amount) inside the try block of _parse_token_amounts: whether it
\* succeeds, and its value.
AmountFloat(amount) ==
    IF amount.t \in {"float", "int", "bool"} THEN Ok(FloatOf(amount))
    ELSE IF amount.t = "str" THEN ParseFloat(amount.s)
    ELSE Fail

\* Mutant: an entry whose amount is not numeric discards the whole map.
RECURSIVE ParseItems_abort(_, _, _)
ParseItems_abort(items, i, tokens) ==
    IF i > Len(items) THEN tokens
    ELSE LET token == items[i][1]
             amount == AmountFloat(items[i][2])
         IN  IF amount.ok
             THEN ParseItems_abort(items, i + 1, DictSet(tokens, Upper(token), amount.v))
             ELSE EmptyDict

RECURSIVE ParseItems(_, _, _)
ParseItems(items, i, tokens) ==
    IF i > Len(items) THEN tokens
    ELSE LET token == items[i][1]
             amount == AmountFloat(items[i][2])
         IN  ParseItems(items, i + 1,
                        IF amount.ok THEN DictSet(tokens, Upper(token), amount.v)
                        ELSE tokens)

\* Mutant: a token map stored as JSON text is not decoded.
_parse_token_amounts_no_json(payload) ==
    IF ~Truthy(payload) THEN EmptyDict
    ELSE IF payload.t # "dict" THEN EmptyDict
    ELSE ParseItems(payload.d, 1, EmptyDict)

_parse_token_amounts(payload) ==
    IF ~Truthy(payload) THEN EmptyDict
    ELSE LET loaded == IF payload.t = "str" THEN json_loads(payload.s) ELSE Ok(payload)
         IN  IF ~loaded.ok THEN EmptyDict
             ELSE IF loaded.v.t # "dict" THEN EmptyDict
             ELSE ParseItems(loaded.v.d, 1, EmptyDict)

CategoryTotals(token_amounts, usd) == [token_amounts |-> token_amounts, usd |-> usd]

_category_totals_from_record(record, prefix) ==
    CategoryTotals(_parse_token_amounts(RecGet(record, prefix \o "_tokens")),
                   _safe_float(RecGet(record, prefix \o "_usd"), 0))

\* Mutant: merged[token.upper()] = amount, the last part wins.
RECURSIVE MergePart_overwrite(_, _, _)
MergePart_overwrite(part, i, merged) ==
    IF i > Len(part) THEN merged
    ELSE MergePart_overwrite(part, i + 1, DictSet(merged, Upper(part[i][1]), part[i][2]))

\* merged[token.upper()] += amount over the items of one part.
RECURSIVE MergePart(_, _, _)
MergePart(part, i, merged) ==
    IF i > Len(part) THEN merged
    ELSE LET key == Upper(part[i][1])
         IN  MergePart(part, i + 1,
                       DictSet(merged, key, FAdd(DictGet(merged, key, 0), part[i][2])))

RECURSIVE MergeParts(_, _, _)
MergeParts(parts, i, merged) ==
    IF i > Len(parts) THEN merged
    ELSE MergeParts(parts, i + 1, MergePart(parts[i], 1, merged))

\* Mutant: the entry fees are left out of the overall token map.
_merge_token_amounts_without_last(parts) == MergeParts(SubSeq(parts, 1, Len(parts) - 1), 1, EmptyDict)

_merge_token_amounts(parts) == MergeParts(parts, 1, EmptyDict)

AggregatedTotals(ranked, brawl, tournament, entry_fees, overall) ==
    [ranked |-> ranked, brawl |-> brawl, tournament |-> tournament,
     entry_fees |-> entry_fees, overall |-> overall]

\* Mutant: the stored overall figure is used even when it is zero or missing.
RecordOverallUsd_no_fallback(record, ranked, brawl, tournament, entry_fees) ==
    _safe_float(RecGet(record, "overall_usd"), 0)

\* overall_usd of a reconstructed aggregate: the stored value unless it is
\* falsy, else the sum of the four category figures.
RecordOverallUsd(record, ranked, brawl, tournament, entry_fees) ==
    LET overall_usd == _safe_float(RecGet(record, "overall_usd"), 0)
    IN  IF overall_usd = 0
        THEN FAdd(FAdd(FAdd(ranked.usd, brawl.usd), tournament.usd), entry_fees.usd)
        ELSE overall_usd

_aggregated_totals_from_record(record) ==
    LET ranked == _category_totals_from_record(record, "ranked")
        brawl == _category_totals_from_record(record, "brawl")
        tournament == _category_totals_from_record(record, "tournament")
        entry_fees == _category_totals_from_record(record, "entry_fees")
        overall_tokens == _merge_token_amounts(<<ranked.token_amounts, brawl.token_amounts,
                                                 tournament.token_amounts,
                                                 entry_fees.token_amounts>>)
    IN  AggregatedTotals(ranked, brawl, tournament, entry_fees,
                         CategoryTotals(overall_tokens,
                                        RecordOverallUsd(record, ranked, brawl,
                                                         tournament, entry_fees)))

(* --------------------------- snapshot upsert -------------------------- *)

\* A token map as the JSON body carries it.
RECURSIVE JsonTokens(_, _)
JsonTokens(d, i) ==
    IF i > Len(d) THEN EmptyDict ELSE <<<<d[i][1], VFloat(d[i][2])>>>> \o JsonTokens(d, i + 1)

\* The payload upsert_season_totals posts (the fields the history view reads).
SeasonPayload(totals, scholar_pct, payout_currency) ==
    [ranked_tokens |-> VDict(JsonTokens(totals.ranked.token_amounts, 1)),
     brawl_tokens |-> VDict(JsonTokens(totals.brawl.token_amounts, 1)),
     tournament_tokens |-> VDict(JsonTokens(totals.tournament.token_amounts, 1)),
     entry_fees_tokens |-> VDict(JsonTokens(totals.entry_fees.token_amounts, 1)),
     ranked_usd |-> VFloat(totals.ranked.usd),
     brawl_usd |-> VFloat(totals.brawl.usd),
     tournament_usd |-> VFloat(totals.tournament.usd),
     entry_fees_usd |-> VFloat(totals.entry_fees.usd),
     overall_usd |-> VFloat(totals.overall.usd),
     scholar_pct |-> VFloat(scholar_pct),
     payout_currency |-> VStr(<<payout_currency>>)]

\* A token column as the store returns it: a native mapping (json column) or
\* the JSON text of the mapping (text column).
StoredTokens(column, asText) ==
    IF asText THEN VStr(json_dumps([i \in DOMAIN column.d |-> <<column.d[i][1], column.d[i][2].v>>]))
    ELSE column

StoredRow(payload, asText) ==
    [payload EXCEPT !.ranked_tokens = StoredTokens(@, asText),
                    !.brawl_tokens = StoredTokens(@, asText),
                    !.tournament_tokens = StoredTokens(@, asText),
                    !.entry_fees_tokens = StoredTokens(@, asText)]

(* ------------------- snapshot round trip: the machine ------------------ *)

\* The per-token sum of four token maps, as a mapping.
TokenSum(a, b, c, d) ==
    [k \in DictKeys(a) \cup DictKeys(b) \cup DictKeys(c) \cup DictKeys(d) |->
        DictGet(a, k, 0) + DictGet(b, k, 0) + DictGet(c, k, 0) + DictGet(d, k, 0)]

\* Some dict denoting the mapping m.
RECURSIVE MapToDict(_)
MapToDict(m) ==
    IF DOMAIN m = {} THEN EmptyDict
    ELSE LET k == CHOOSE x \in DOMAIN m : TRUE
         IN  <<<<k, m[k]>>>> \o MapToDict([x \in DOMAIN m \ {k} |-> m[x]])

Amounts == 1..MaxAmount

\* Aggregates handed to the sync: category token maps and USD figures, and
\* an overall that is the per-token sum and USD sum (skew = 0) or is not.
SyncedAggregates ==
    {AggregatedTotals(
        CategoryTotals(rt, u[1]), CategoryTotals(bt, u[2]),
        CategoryTotals(tt, u[3]), CategoryTotals(et, u[4]),
        CategoryTotals(MapToDict(TokenSum(rt, bt, tt, et)),
                       u[1] + u[2] + u[3] + u[4] + skew)) :
        rt \in DictsOver({"SPS", "DEC"}, Amounts),
        bt \in DictsOver({"SPS", "sps"}, {1}),
        tt \in {EmptyDict, <<<<"DEC", MaxAmount>>>>},
        et \in {EmptyDict, <<<<"SPS", 1>>>>},
        u \in [1..4 -> {0, MaxAmount}],
        skew \in {0, 1}}

\* Token columns of rows that were not written by this program's sync.
ForeignTokens ==
    {Null, VStr(<< >>), VInt(1), VList(<< >>), VDict(EmptyDict),
     VStr(<<"{", "SPS">>), VStr(<<"[", "]">>), VStr(<<"1">>),
     VStr(<<"{", "sps", ":", "1", ",", "SPS", ":", "2", "}">>),
     VStr(<<"{", "SPS", ":", "1", ",", "SPS", ":", "2", "}">>),
     VStr(<<"{", "DEC", ":", "null", ",", "SPS", ":", "\"2\"", "}">>),
     VDict(<<<<"sps", VInt(1)>>, <<"SPS", VFloat(MaxAmount)>>>>),
     VDict(<<<<"SPS", VStr(<<"x">>)>>, <<"dec", VInt(1)>>>>),
     VDict(<<<<"DEC", Null>>, <<"Eth", VStr(<<"2">>)>>>>)}

ForeignUsd ==
    {Null, VFloat(0), VInt(1), VFloat(MaxAmount), VFloat(PosInf), VBool(TRUE),
     VStr(<<"2">>), VStr(<<"x">>), VStr(<< >>), VStr(<<"inf">>), VList(<< >>)}

\* Rows of the season table as the history view may find them; a field may
\* be missing altogether.
ForeignRows ==
    {[ranked_tokens |-> rt, entry_fees_tokens |-> et,
      ranked_usd |-> ru, brawl_usd |-> bu, overall_usd |-> ou] :
        rt \in ForeignTokens, et \in {Null, VDict(<<<<"sps", VInt(MaxAmount)>>>>)},
        ru \in {Null, VInt(1), VStr(<<"2">>), VStr(<<"x">>)},
        bu \in {VInt(MaxAmount)}, ou \in ForeignUsd}
    \cup
    {[ranked_tokens |-> rt, ranked_usd |-> ru, tournament_usd |-> VStr(<<"1">>)] :
        rt \in ForeignTokens, ru \in {Null, VInt(0), VFloat(MaxAmount)}}

InitSnapshot ==
    /\ NoSession
    /\ \/ /\ op = "sync"
          /\ input \in SyncedAggregates
          /\ output = NoOutput
       \/ /\ op = "stored"
          /\ input = NoOutput
          /\ output \in {[k |-> "row", record |-> r] : r \in ForeignRows}

\* upsert_season_totals followed by the store keeping the row.
UpsertSeasonTotals ==
    /\ op = "sync"
    /\ \E asText \in BOOLEAN :
         output' = [k |-> "row",
                    record |-> StoredRow(SeasonPayload(input, 50, "SPS"), asText)]
    /\ op' = "stored"
    /\ UNCHANGED <<input, cache, store, _last_error>>

\* The history view rebuilding the aggregate of a fetched row.
HistoryReconstruct ==
    /\ op = "stored"
    /\ output' = [k |-> "totals", record |-> output.record,
                  totals |-> _aggregated_totals_from_record(output.record)]
    /\ op' = "reconstructed"
    /\ UNCHANGED <<input, cache, store, _last_error>>

NextSnapshot == UpsertSeasonTotals \/ HistoryReconstruct

SpecSnapshot == InitSnapshot /\ [][NextSnapshot]_vars

(* ------------------------------ C1, C4 -------------------------------- *)

Categories == {"ranked", "brawl", "tournament", "entry_fees"}

UppercaseKeys(totals) ==
    \A c \in Categories : \A k \in DictKeys(totals[c].token_amounts) : Upper(k) = k

OverallIsSum(totals) ==
    /\ AsMap(totals.overall.token_amounts) =
         TokenSum(totals.ranked.token_amounts, totals.brawl.token_amounts,
                  totals.tournament.token_amounts, totals.entry_fees.token_amounts)
    /\ totals.overall.usd =
         totals.ranked.usd + totals.brawl.usd + totals.tournament.usd + totals.entry_fees.usd

SameFigures(a, b) ==
    \A c \in Categories \cup {"overall"} :
        /\ AsMap(a[c].token_amounts) = AsMap(b[c].token_amounts)
        /\ a[c].usd = b[c].usd

\* C1: an aggregate with uppercase category keys whose overall is the
\* per-token sum and the USD sum of its categories comes back unchanged
\* (every category's token map and USD, the overall token map and USD) from
\* _aggregated_totals_from_record applied to the row upsert_season_totals
\* wrote, whether the token maps are stored natively or as JSON text.
C1_RoundTrip ==
    (op = "reconstructed" /\ input # NoOutput
        /\ UppercaseKeys(input) /\ OverallIsSum(input))
    => SameFigures(output.totals, input)

C1_Witness ==
    /\ op = "reconstructed" /\ input # NoOutput
    /\ UppercaseKeys(input) /\ OverallIsSum(input)
    /\ output.record.ranked_tokens.t = "str"
    /\ DictKeys(input.ranked.token_amounts) = {"SPS", "DEC"}
    /\ DictKeys(input.brawl.token_amounts) = {"SPS"}
    /\ input.overall.usd > 0
    /\ SameFigures(output.totals, input)

\* The numbers a stored value coerces to (none when it is not coercible).
Coercions(value) ==
    CASE value.t \in {"int", "float"} -> {value.v}
      [] value.t = "bool" -> {IF value.b THEN 1 ELSE 0}
      [] value.t = "str" ->
           IF Len(value.s) # 1 THEN {}
           ELSE {n \in 0..MaxLiteral : ToString(n) = value.s[1]}
                \cup (IF value.s[1] = "inf" THEN {PosInf} ELSE {})
      [] OTHER -> {}

CategoryUsdSum(totals) ==
    FAdd(FAdd(FAdd(totals.ranked.usd, totals.brawl.usd), totals.tournament.usd),
         totals.entry_fees.usd)

\* C4: the reconstructed overall.usd is the row's overall_usd when that
\* field coerces to a non-zero number, and otherwise (absent, null, zero,
\* not coercible) the sum of the four reconstructed category USD values.
C4_OverallUsdPreference ==
    op = "reconstructed" =>
        LET stored == Coercions(RecGet(output.record, "overall_usd")) \ {0}
        IN  IF stored # {} THEN output.totals.overall.usd \in stored
            ELSE output.totals.overall.usd = CategoryUsdSum(output.totals)

\* Both branches: a stored figure that differs from the category sum is
\* kept; here the row holds overall_usd = "2" beside categories summing to 3.
C4_Witness ==
    /\ op = "reconstructed"
    /\ "overall_usd" \in DOMAIN output.record
    /\ output.record.overall_usd = VStr(<<"2">>)
    /\ output.totals.overall.usd = 2
    /\ CategoryUsdSum(output.totals) # 2

(* -------------------------------- C13 ---------------------------------- *)

\* The mapping a token payload holds, as a set of at most one dict: the
\* payload itself, or the object its JSON text denotes.
MappingOf(payload) ==
    IF payload.t = "dict" THEN {payload.d}
    ELSE IF payload.t = "str" /\ json_loads(payload.s).ok /\ json_loads(payload.s).v.t = "dict"
        THEN {json_loads(payload.s).v.d}
    ELSE {}

\* The entries of mapping d with a numeric amount, filed under key K.
NumericEntries(d, K) == {i \in DOMAIN d : Upper(d[i][1]) = K /\ Coercions(d[i][2]) # {}}

\* C13: every category of a stored record is rebuilt without an exception.
\* A token payload that is not a mapping (null, empty, text that is not
\* JSON, JSON that is not an object, any other value) gives the empty token
\* map; within a mapping the entries with a non-numeric amount are skipped
\* and every other entry is kept under its uppercased key.
C13_MalformedPayloads ==
    op = "reconstructed" =>
        \A c \in Categories :
            LET payload == RecGet(output.record, c \o "_tokens")
                tokens == output.totals[c].token_amounts
            IN  IF MappingOf(payload) = {} THEN tokens = EmptyDict
                ELSE \A d \in MappingOf(payload) :
                        /\ DictKeys(tokens) =
                             {Upper(d[i][1]) : i \in {j \in DOMAIN d : Coercions(d[j][2]) # {}}}
                        /\ \A K \in DictKeys(tokens) :
                             \E i \in NumericEntries(d, K) :
                                 DictGet(tokens, K, 0) \in Coercions(d[i][2])

\* A mapping with one malformed entry: {"SPS": "x", "dec": 1} is rebuilt as
\* {"DEC": 1}.
C13_Witness ==
    /\ op = "reconstructed"
    /\ RecGet(output.record, "ranked_tokens")
         = VDict(<<<<"SPS", VStr(<<"x">>)>>, <<"dec", VInt(1)>>>>)
    /\ output.totals.ranked.token_amounts = <<<<"DEC", 1>>>>
    /\ output.totals.brawl.token_amounts = EmptyDict

(* ------------------------ merging token maps -------------------------- *)

\* Amounts of the maps to merge: small ones, and one at the limit above
\* which a sum is rounded.
MergeAmounts == Amounts \cup {ExactLimit}

\* Three token maps whose keys meet in every letter case.
MergeInputs ==
    {[a |-> a, b |-> b, c |-> c] :
        a \in DictsOver({"SPS", "sps"}, MergeAmounts),
        b \in DictsOver({"SPS", "dec"}, MergeAmounts),
        c \in DictsOver({"sps"}, MergeAmounts)}

InitMerge ==
    /\ op = "merge"
    /\ input \in MergeInputs
    /\ output = NoOutput
    /\ NoSession

Permutations3(a, b, c) ==
    {<<a, b, c>>, <<a, c, b>>, <<b, a, c>>, <<b, c, a>>, <<c, a, b>>, <<c, b, a>>}

\* The calls of _merge_token_amounts a caller can make with three maps.
MergeTokenAmounts ==
    /\ op = "merge"
    /\ output' =
         [k |-> "merged",
          ab |-> _merge_token_amounts(<<input.a, input.b>>),
          ba |-> _merge_token_amounts(<<input.b, input.a>>),
          ab_c |-> _merge_token_amounts(
                     <<_merge_token_amounts(<<input.a, input.b>>), input.c>>),
          a_bc |-> _merge_token_amounts(
                     <<input.a, _merge_token_amounts(<<input.b, input.c>>)>>),
          orders |-> {AsMap(_merge_token_amounts(p)) :
                        p \in Permutations3(input.a, input.b, input.c)}]
    /\ op' = "merged"
    /\ UNCHANGED <<input, cache, store, _last_error>>

NextMerge == MergeTokenAmounts

SpecMerge == InitMerge /\ [][NextMerge]_vars

\* The exact (unrounded) total of the amounts filed under key K.
ExactTotal(K) ==
    LET Of(d) == {i \in DOMAIN d : Upper(d[i][1]) = K}
        RECURSIVE Sum(_, _)
        Sum(d, I) == IF I = {} THEN 0
                     ELSE LET i == CHOOSE x \in I : TRUE IN d[i][2] + Sum(d, I \ {i})
    IN  Sum(input.a, Of(input.a)) + Sum(input.b, Of(input.b)) + Sum(input.c, Of(input.c))

MergedKeys == {Upper(k) : k \in DictKeys(input.a) \cup DictKeys(input.b) \cup DictKeys(input.c)}

\* No two keys of d differ only in letter case.
CaseDistinct(d) == \A i, j \in DOMAIN d : Upper(d[i][1]) = Upper(d[j][1]) => i = j

Hundred == 100

\* n / d rounded to the nearest integer, ties to even (format ".2f").
RoundDiv(n, d) ==
    LET q == n \div d
        r == n % d
    IN  IF 2 * r < d THEN q
        ELSE IF 2 * r > d THEN q + 1
        ELSE IF q % 2 = 0 THEN q ELSE q + 1

\* The rendered strings: "$U", "A CUR ($U)", "0.00 CUR" and "-".
TextUsd(cents) == [form |-> "usd", amount |-> 0, currency |-> "USD", usd |-> cents]

TextTokenUsd(amount, currency, cents) ==
    [form |-> "token_usd", amount |-> amount, currency |-> currency, usd |-> cents]

TextZero(currency) == [form |-> "zero", amount |-> 0, currency |-> currency, usd |-> 0]

TextDash == [form |-> "dash", amount |-> 0, currency |-> "", usd |-> 0]

\* prices.get(token) of the price table, a mapping from symbol to price:
\* the price filed under exactly this symbol, None (0 here) when absent.
PriceQuotesGet(prices, token) == DictGet(prices, token, 0)

\* prices.get(a) or prices.get(b) or 0; a missing or zero price is falsy.
PriceOf(prices, a, b) ==
    IF PriceQuotesGet(prices, a) # 0 THEN PriceQuotesGet(prices, a)
    ELSE PriceQuotesGet(prices, b)

\* sps_amount, in hundredths of a token; explicit_sps is Null or VFloat.
\* Mutant: an explicit payout of 0 is taken for "none given".
PayoutBase_falsy_override(totals, scholar_pct, explicit_sps) ==
    IF ~Truthy(explicit_sps)
    THEN FMul(DictGet(totals.overall.token_amounts, "SPS", 0), scholar_pct)
    ELSE FMul(explicit_sps.v, Hundred)

PayoutBase(totals, scholar_pct, explicit_sps) ==
    IF explicit_sps.t = "null"
    THEN FMul(DictGet(totals.overall.token_amounts, "SPS", 0), scholar_pct)
    ELSE FMul(explicit_sps.v, Hundred)

\* Mutant: the target price is looked up before the zero check, so a zero
\* payout in an unpriced currency renders "-".
PayoutText_price_first(currency_key, sps_amount, usd_value, target_price) ==
    IF currency_key = "USD" THEN TextUsd(RoundDiv(usd_value, Hundred))
    ELSE IF currency_key = "SPS"
        THEN TextTokenUsd(sps_amount, "SPS", RoundDiv(usd_value, Hundred))
    ELSE IF target_price = 0 THEN TextDash
    ELSE IF sps_amount = 0 \/ usd_value = 0 THEN TextZero(currency_key)
    ELSE TextTokenUsd(RoundDiv(usd_value, target_price), currency_key,
                      RoundDiv(usd_value, Hundred))

\* Mutant: the converted amount is the USD value times the target price.
PayoutText_multiplied(currency_key, sps_amount, usd_value, target_price) ==
    IF currency_key = "USD" THEN TextUsd(RoundDiv(usd_value, Hundred))
    ELSE IF sps_amount = 0 \/ usd_value = 0 THEN
        (IF currency_key = "SPS"
         THEN TextTokenUsd(sps_amount, "SPS", RoundDiv(usd_value, Hundred))
         ELSE TextZero(currency_key))
    ELSE IF currency_key = "SPS"
        THEN TextTokenUsd(sps_amount, "SPS", RoundDiv(usd_value, Hundred))
    ELSE IF target_price = 0 THEN TextDash
    ELSE TextTokenUsd(RoundDiv(usd_value * target_price, Hundred * Hundred), currency_key,
                      RoundDiv(usd_value, Hundred))

\* Mutant: a zero payout in a currency other than USD and SPS renders "-".
PayoutText_zero_dash(currency_key, sps_amount, usd_value, target_price) ==
    IF currency_key = "USD" THEN TextUsd(RoundDiv(usd_value, Hundred))
    ELSE IF sps_amount = 0 \/ usd_value = 0 THEN
        (IF currency_key = "SPS"
         THEN TextTokenUsd(sps_amount, "SPS", RoundDiv(usd_value, Hundred))
         ELSE TextDash)
    ELSE IF currency_key = "SPS"
        THEN TextTokenUsd(sps_amount, "SPS", RoundDiv(usd_value, Hundred))
    ELSE IF target_price = 0 THEN TextDash
    ELSE TextTokenUsd(RoundDiv(usd_value, target_price), currency_key,
                      RoundDiv(usd_value, Hundred))

\* The branches of _format_scholar_payout after the amounts are known.
PayoutText(currency_key, sps_amount, usd_value, target_price) ==
    IF currency_key = "USD" THEN TextUsd(RoundDiv(usd_value, Hundred))
    ELSE IF sps_amount = 0 \/ usd_value = 0 THEN
        (IF currency_key = "SPS"
         THEN TextTokenUsd(sps_amount, "SPS", RoundDiv(usd_value, Hundred))
         ELSE TextZero(currency_key))
    ELSE IF currency_key = "SPS"
        THEN TextTokenUsd(sps_amount, "SPS", RoundDiv(usd_value, Hundred))
    ELSE IF target_price = 0 THEN TextDash
    ELSE TextTokenUsd(RoundDiv(usd_value, target_price), currency_key,
                      RoundDiv(usd_value, Hundred))

_format_scholar_payout(currency, totals, scholar_pct, prices, explicit_sps) ==
    LET currency_key == Upper(currency)
        sps_amount == PayoutBase(totals, scholar_pct, explicit_sps)
        sps_price == PriceOf(prices, "SPS", "sps")
        usd_value == FMul(sps_amount, sps_price)
        target_price == PriceOf(prices, currency_key, Lower(currency_key))
    IN  PayoutText(currency_key, sps_amount, usd_value, target_price)

\* payout_currency, scholar_pct and payout_override of a history row.
RecordPayoutCurrency(record) ==
    LET stored == RecGet(record, "payout_currency")
    IN  IF Truthy(stored) THEN stored.s[1] ELSE "SPS"

RecordPayoutOverride(record) ==
    IF RecGet(record, "scholar_payout").t # "null"
    THEN VFloat(_safe_float(RecGet(record, "scholar_payout"), 0))
    ELSE Null

_record_scholar_pct(record) == _safe_float(RecGet(record, "scholar_pct"), 0)

HistoryPayoutDisplay(record, totals, prices) ==
    _format_scholar_payout(RecordPayoutCurrency(record), totals,
                           _record_scholar_pct(record), prices,
                           RecordPayoutOverride(record))

(* ------------------------ payout: the machine -------------------------- *)

\* Largest price drawn, in cents.
MaxPrice == 3

Prices == 1..MaxPrice

\* Price tables: SPS priced under either case, missing, or zero; the other
\* currencies likewise.  (A dict holds each key once.)
SpsQuotes ==
    {EmptyDict, <<<<"sps", 0>>>>}
    \cup {<<<<"sps", p>>>> : p \in Prices}
    \cup {<<<<"SPS", p>>>> : p \in Prices}
    \cup {<<<<"SPS", 0>>, <<"sps", p>>>> : p \in Prices}

EthQuotes ==
    {EmptyDict, <<<<"eth", 0>>>>}
    \cup {<<<<"eth", p>>>> : p \in Prices}
    \cup {<<<<"ETH", p>>>> : p \in Prices}

PriceTables == {a \o b : a \in SpsQuotes, b \in EthQuotes}

PayoutCurrencies == {"USD", "usd", "SPS", "Sps", "ETH", "eth", "Eth", "DEC"}

PayoutTotals ==
    {[overall |-> CategoryTotals(d, 0)] :
        d \in {EmptyDict, <<<<"DEC", 1>>>>} \cup {<<<<"SPS", a>>>> : a \in Amounts}}

ScholarPcts == {0, 5, 50, 100}

\* History rows: the three fields the payout column reads.
PayoutRecords ==
    {[payout_currency |-> c, scholar_pct |-> p, scholar_payout |-> o] :
        c \in {Null, VStr(<< >>), VStr(<<"eth">>), VStr(<<"USD">>), VStr(<<"Sps">>)},
        p \in {Null, VInt(50), VFloat(100)},
        o \in {Null, VInt(0), VFloat(MaxAmount), VFloat(1), VStr(<<"2">>),
               VStr(<<"x">>), VList(<< >>)}}
    \cup
    {[scholar_pct |-> VInt(50)], [scholar_pct |-> VInt(5), payout_currency |-> VStr(<<"ETH">>)]}

InitPayout ==
    /\ NoSession
    /\ \/ /\ op = "summary"
          /\ input \in {[currency |-> c, totals |-> t, scholar_pct |-> p, prices |-> q] :
                           c \in PayoutCurrencies, t \in PayoutTotals,
                           p \in ScholarPcts, q \in PriceTables}
          /\ output = NoOutput
       \/ /\ op = "history"
          /\ input \in {[record |-> r, totals |-> t, prices |-> q] :
                           r \in PayoutRecords, t \in PayoutTotals, q \in PriceTables}
          /\ output = NoOutput

\* The summary table's payout column: no explicit payout is ever passed.
SummaryPayout ==
    /\ op = "summary"
    /\ output' =
         [k |-> "payout",
          text |-> _format_scholar_payout(input.currency, input.totals,
                                          input.scholar_pct, input.prices, Null),
          others |-> {_format_scholar_payout(input.currency, t, p, input.prices, Null) :
                        t \in PayoutTotals, p \in ScholarPcts}]
    /\ op' = "summary_shown"
    /\ UNCHANGED <<input, cache, store, _last_error>>

\* The history table's payout column; others holds what the same row would
\* show over every other aggregate and stored percentage.
HistoryPayout ==
    /\ op = "history"
    /\ output' =
         [k |-> "payout",
          text |-> HistoryPayoutDisplay(input.record, input.totals, input.prices),
          others |-> {HistoryPayoutDisplay([input.record EXCEPT !.scholar_pct = p],
                                           t, input.prices) :
                        t \in PayoutTotals, p \in {Null, VInt(5), VInt(50), VFloat(100)}}]
    /\ op' = "history_shown"
    /\ UNCHANGED <<input, cache, store, _last_error>>

NextPayout == SummaryPayout \/ HistoryPayout

SpecPayout == InitPayout /\ [][NextPayout]_vars

(* ------------------------------ C6 .. C9 ------------------------------- *)

PayoutShown == op \in {"summary_shown", "history_shown"}

\* The arguments of the call the state records.
CallKey ==
    Upper(IF op = "summary_shown" THEN input.currency
          ELSE IF "payout_currency" \in DOMAIN input.record
                  /\ input.record.payout_currency.t = "str"
                  /\ Len(input.record.payout_currency.s) > 0
               THEN input.record.payout_currency.s[1]
               ELSE "SPS")

\* The explicit payout of the call, in whole tokens; -1 when none is given.
CallOverride ==
    IF op = "summary_shown" THEN -1
    ELSE IF "scholar_payout" \notin DOMAIN input.record THEN -1
    ELSE IF input.record.scholar_payout.t = "null" THEN -1
    ELSE IF Coercions(input.record.scholar_payout) = {} THEN 0
    ELSE CHOOSE n \in Coercions(input.record.scholar_payout) : TRUE

CallPct ==
    IF op = "summary_shown" THEN input.scholar_pct
    ELSE IF Coercions(RecGet(input.record, "scholar_pct")) = {} THEN 0
    ELSE CHOOSE n \in Coercions(RecGet(input.record, "scholar_pct")) : TRUE

CallSps ==
    IF "SPS" \in DictKeys(input.totals.overall.token_amounts)
    THEN AsMap(input.totals.overall.token_amounts)["SPS"] ELSE 0

\* The base payout amount in hundredths of a token, and its value in
\* hundredths of a cent.
CallBase == IF CallOverride >= 0 THEN CallOverride * Hundred ELSE CallSps * CallPct

KnownPrice(symbol) ==
    LET quotes == AsMap(input.prices)
        seen == {quotes[k] : k \in {symbol, Lower(symbol)} \cap DOMAIN quotes} \ {0}
    IN  IF seen = {} THEN 0
        ELSE IF symbol \in DOMAIN quotes /\ quotes[symbol] # 0 THEN quotes[symbol]
        ELSE quotes[Lower(symbol)]

CallUsd == CallBase * KnownPrice("SPS")

Unpriced == CallKey \notin {"USD", "SPS"} /\ KnownPrice(CallKey) = 0

C7_ZeroPayout ==
    (PayoutShown /\ (CallBase = 0 \/ CallUsd = 0)
        /\ (CallKey = "USD" \/ KnownPrice(CallKey) # 0)) =>
        /\ output.text # TextDash
        /\ output.text.amount = 0 /\ output.text.usd = 0
        /\ output.text.currency = CallKey
        /\ output.text.form =
             (IF CallKey = "USD" THEN "usd" ELSE IF CallKey = "SPS" THEN "token_usd" ELSE "zero")

\* A stored payout of 0 shown in priced ETH while the aggregate holds SPS.
C7_Witness ==
    /\ op = "history_shown"
    /\ CallOverride = 0 /\ CallSps > 0 /\ CallPct > 0
    /\ CallKey = "ETH" /\ KnownPrice("ETH") # 0 /\ KnownPrice("SPS") # 0
    /\ output.text = TextZero("ETH")

\* C8: the base amount is the explicit payout when one is given (0
\* included) and otherwise overall SPS (0 if absent) times scholar_pct /
\* 100; with an explicit payout the text is the same over every aggregate
\* and percentage; a history row with a non-null scholar_payout always
\* gives one, coerced to a number with 0 on failure.
C8_BaseAmount ==
    PayoutShown =>
        /\ output.text = PayoutText(CallKey, CallBase, CallUsd, KnownPrice(CallKey))
        /\ CallKey = "SPS" => output.text.amount = CallBase
        /\ CallOverride >= 0 => output.others = {output.text}

\* A stored payout of 0 beside an aggregate whose computed share is not 0.
C8_Witness ==
    /\ op = "history_shown"
    /\ RecGet(input.record, "scholar_payout").t = "int"
    /\ CallOverride = 0
    /\ CallKey = "SPS" /\ CallSps * CallPct > 0
    /\ output.text.amount = 0
    /\ output.others = {output.text}

\* C9: with a non-zero base amount and a known SPS price, USD shows base
\* times price in dollars, SPS shows the base amount with that USD value,
\* and any other priced currency shows c with the USD value, c being
\* (base times price) / p to the nearest hundredth, so c times p is base
\* times price up to that rounding; the currency is matched by its
\* uppercased symbol.
C9_Conversion ==
    (PayoutShown /\ CallBase # 0 /\ KnownPrice("SPS") # 0) =>
        CASE CallKey = "USD" -> output.text = TextUsd(RoundDiv(CallUsd, Hundred))
          [] CallKey = "SPS" ->
               output.text = TextTokenUsd(CallBase, "SPS", RoundDiv(CallUsd, Hundred))
          [] OTHER ->
               KnownPrice(CallKey) # 0 =>
                   /\ output.text.form = "token_usd"
                   /\ output.text.currency = CallKey
                   /\ output.text.usd = RoundDiv(CallUsd, Hundred)
                   /\ LET back == output.text.amount * KnownPrice(CallKey)
                      IN  2 * (IF back > CallUsd THEN back - CallUsd ELSE CallUsd - back)
                            <= KnownPrice(CallKey)

\* A mixed-case "Eth" target priced under "eth" or "ETH", with a quotient
\* that does not come out even.
C9_Witness ==
    /\ op = "summary_shown"
    /\ input.currency = "Eth"
    /\ KnownPrice("ETH") > 1 /\ CallUsd % KnownPrice("ETH") # 0
    /\ output.text.form = "token_usd" /\ output.text.currency = "ETH"
    /\ output.text.amount > 0

(* -------------------------- finish resolution -------------------------- *)

\* Results of a call that may raise.
Returned(v) == [k |-> "returned", v |-> v]

ReturnedNone == [k |-> "none", v |-> 0]

Raised == [k |-> "raised", v |-> 0]

\* int(value) of a float: truncation; a non-finite float raises
\* (OverflowError for an infinity, ValueError for a NaN).
IntOfFloat(x) == IF x = PosInf THEN Raised ELSE Returned(x)

_try_parse_int(value) ==
    IF value.t = "null" THEN ReturnedNone
    ELSE IF value.t = "int" THEN Returned(value.v)
    ELSE IF value.t = "bool" THEN Returned(IF value.b THEN 1 ELSE 0)
    ELSE IF value.t = "float" THEN IntOfFloat(value.v)
    ELSE IF value.t = "str" THEN
        (IF ParseInt(value.s).ok THEN Returned(ParseInt(value.s).v) ELSE ReturnedNone)
    ELSE ReturnedNone

\* value.get(key) if value is a dict, else None.
GetIfDict(value, key) == IF value.t = "dict" THEN DictGet(value.d, key, Null) ELSE Null

\* str(p.get("player", "")).lower(); "" for a missing or non-text name.
PlayerLower(p) ==
    LET name == DictGet(p.d, "player", VStr(<< >>))
    IN  IF name.t = "str" /\ Len(name.s) = 1 /\ name.s[1] \in Names
        THEN Lower(name.s[1]) ELSE ""

\* The loop over detail.players: the first dict entry whose player matches
\* decides; its finish is returned when it parses, else the loop breaks.
RECURSIVE PlayersLoop(_, _, _)
PlayersLoop(players, i, target) ==
    IF i > Len(players) THEN ReturnedNone
    ELSE IF players[i].t # "dict" THEN PlayersLoop(players, i + 1, target)
    ELSE IF PlayerLower(players[i]) = target
        THEN _try_parse_int(DictGet(players[i].d, "finish", Null))
    ELSE PlayersLoop(players, i + 1, target)

\* Mutant: the current_player block is consulted before the players list.
FinishFallback_current_first(detail, target) ==
    LET players == GetIfDict(detail, "players")
        current_player == GetIfDict(detail, "current_player")
        from_current ==
            IF current_player.t = "dict" /\ PlayerLower(current_player) = target
            THEN _try_parse_int(DictGet(current_player.d, "finish", Null))
            ELSE ReturnedNone
        from_players ==
            IF players.t = "list" THEN PlayersLoop(players.items, 1, target)
            ELSE ReturnedNone
    IN  IF from_current.k # "none" THEN from_current ELSE from_players

\* Lines 259-277: players list first, then the current_player block.
FinishFallback(detail, target) ==
    LET players == GetIfDict(detail, "players")
        current_player == GetIfDict(detail, "current_player")
        from_players ==
            IF players.t = "list" THEN PlayersLoop(players.items, 1, target)
            ELSE ReturnedNone
    IN  IF from_players.k # "none" THEN from_players
        ELSE IF current_player.t = "dict" /\ PlayerLower(current_player) = target
            THEN _try_parse_int(DictGet(current_player.d, "finish", Null))
        ELSE ReturnedNone

\* t is [finish, raw]; the result is an int, the sentinel "-" or an exception.
Dash == [k |-> "dash", v |-> 0]

_get_finish_for_tournament(t, username) ==
    IF t.finish.t # "null" THEN Returned(t.finish.v)
    ELSE LET found == FinishFallback(GetIfDict(t.raw, "detail"), Lower(username))
         IN  IF found.k = "none" THEN Dash ELSE found

(* ----------------------- finish: the machine --------------------------- *)

\* Longest detail.players list drawn.
MaxPlayers == 2

FinishValues ==
    {Null, VInt(3), VStr(<<"3">>), VStr(<<"x">>), VFloat(2), VFloat(PosInf), VList(<< >>)}

PlayerEntries ==
    {VInt(7)}
    \cup {VDict(<<<<"player", VStr(<<"Alice">>)>>, <<"finish", f>>>>) : f \in FinishValues}
    \cup {VDict(<<<<"player", VStr(<<"bob">>)>>, <<"finish", VInt(MaxAmount)>>>>),
          VDict(<<<<"player", VStr(<<"Alice">>)>>>>)}

RECURSIVE ListsUpTo(_, _)
ListsUpTo(S, n) ==
    IF n = 0 THEN {<< >>}
    ELSE ListsUpTo(S, n - 1)
         \cup {Append(l, x) : l \in {m \in ListsUpTo(S, n - 1) : Len(m) = n - 1}, x \in S}

CurrentPlayers ==
    {Null, VInt(1)}
    \cup {VDict(<<<<"player", VStr(<<n>>)>>, <<"finish", f>>>>) :
            n \in {"ALICE", "bob"},
            f \in {Null, VInt(MaxAmount), VStr(<<"x">>), VFloat(PosInf)}}

Details ==
    {Null, VInt(1)}
    \cup {VDict(<<<<"players", ps>>, <<"current_player", cp>>>>) :
            ps \in {Null, VInt(1)} \cup {VList(l) : l \in ListsUpTo(PlayerEntries, MaxPlayers)},
            cp \in CurrentPlayers}

RawPayloads == {Null, VList(<< >>), VDict(EmptyDict)} \cup {VDict(<<<<"detail", d>>>>) : d \in Details}

InitFinish ==
    /\ op = "finish"
    /\ input \in {[t |-> [finish |-> f, raw |-> raw], username |-> u] :
                    f \in {Null, VInt(1)}, raw \in RawPayloads,
                    u \in {"alice", "Alice", "bob"}}
    /\ output = NoOutput
    /\ NoSession

\* One row of the tournaments table: the Finish column.
GetFinishForTournament ==
    /\ op = "finish"
    /\ output' = _get_finish_for_tournament(input.t, input.username)
    /\ op' = "finish_shown"
    /\ UNCHANGED <<input, cache, store, _last_error>>

NextFinish == GetFinishForTournament

SpecFinish == InitFinish /\ [][NextFinish]_vars

(* -------------------------------- C10 ---------------------------------- *)

\* The integers a finish value parses to (none when it does not parse).
FinishParses(value) ==
    CASE value.t = "int" -> {value.v}
      [] value.t = "bool" -> {IF value.b THEN 1 ELSE 0}
      [] value.t = "float" -> IF value.v = PosInf THEN {} ELSE {value.v}
      [] value.t = "str" ->
           IF Len(value.s) # 1 THEN {} ELSE {n \in 0..MaxLiteral : ToString(n) = value.s[1]}
      [] OTHER -> {}

NameMatches(entry, username) ==
    /\ entry.t = "dict"
    /\ "player" \in DictKeys(entry.d)
    /\ AsMap(entry.d)["player"].t = "str"
    /\ Len(AsMap(entry.d)["player"].s) = 1
    /\ Lower(AsMap(entry.d)["player"].s[1]) = Lower(username)

EntryFinish(entry) ==
    IF "finish" \in DictKeys(entry.d) THEN FinishParses(AsMap(entry.d)["finish"]) ELSE {}

\* The finish the fallback order of the claim names, as a set of at most
\* one integer: from the first matching players entry, else from
\* current_player.
ClaimedFinish ==
    LET detail == GetIfDict(input.t.raw, "detail")
        players == GetIfDict(detail, "players")
        cp == GetIfDict(detail, "current_player")
        matches == IF players.t = "list"
                   THEN {i \in DOMAIN players.items : NameMatches(players.items[i], input.username)}
                   ELSE {}
        first == CHOOSE i \in matches : \A j \in matches : i <= j
        from_players == IF matches = {} THEN {} ELSE EntryFinish(players.items[first])
        from_current == IF NameMatches(cp, input.username) THEN EntryFinish(cp) ELSE {}
    IN  IF from_players # {} THEN from_players ELSE from_current

\* C10: the finish shown is the tournament's own finish if not None; else
\* the parsed finish of the players entry matching the username ignoring
\* case; else the parsed finish of a matching current_player; else "-".
C10_FinishFallbackOrder ==
    op = "finish_shown" =>
        IF input.t.finish.t # "null" THEN output = Returned(input.t.finish.v)
        ELSE IF ClaimedFinish # {} THEN output.k = "returned" /\ output.v \in ClaimedFinish
        ELSE output = Dash

\* The same order over the calls that return.
C10_OrderWhenReturning ==
    (op = "finish_shown" /\ output.k # "raised") => C10_FinishFallbackOrder

\* The example of the specification: players = [{player: "Alice", finish:
\* "3"}], username "alice", no own finish: the integer 3.
C10_Example ==
    /\ op = "finish_shown"
    /\ input.username = "alice" /\ input.t.finish = Null
    /\ GetIfDict(GetIfDict(input.t.raw, "detail"), "players")
         = VList(<<VDict(<<<<"player", VStr(<<"Alice">>)>>, <<"finish", VStr(<<"3">>)>>>>)>>)
    /\ output = Returned(3)

(* -------------------------------- C11 ---------------------------------- *)

\* C11: _get_finish_for_tournament never raises, whatever the shape of the
\* raw payload: it returns an integer or the sentinel "-".
C11_NeverRaises ==
    op = "finish_shown" => output.k \in {"returned", "dash"}

\* The payloads without a non-finite float finish under a matching name.
C11_FiniteFinishes ==
    LET detail == GetIfDict(input.t.raw, "detail")
        players == GetIfDict(detail, "players")
        cp == GetIfDict(detail, "current_player")
        Finite(e) == e.t = "dict" => DictGet(e.d, "finish", Null) # VFloat(PosInf)
    IN  /\ Finite(cp)
        /\ players.t = "list" => \A i \in DOMAIN players.items : Finite(players.items[i])

\* Over those payloads the call returns.
C11_ReturnsOnFinite ==
    (op = "finish_shown" /\ C11_FiniteFinishes) => output.k \in {"returned", "dash"}

(* ------------------- numeric coercion: the machine --------------------- *)

\* A call of _safe_float; the ints of the model are within the float range,
\* so that float(value) of line 138 succeeds.
SafeFloatCall(value, default) == Returned(_safe_float(value, default))

\* A call of _safe_int: an int (a bool is one) is returned as it is,
\* int(value) of a float is outside any try block (line 153).
_safe_int(value, default) ==
    IF value.t = "null" THEN Returned(default)
    ELSE IF value.t = "int" THEN Returned(value.v)
    ELSE IF value.t = "bool" THEN Returned(IF value.b THEN 1 ELSE 0)
    ELSE IF value.t = "float" THEN IntOfFloat(value.v)
    ELSE IF value.t = "str" THEN
        (IF ParseInt(value.s).ok THEN Returned(ParseInt(value.s).v) ELSE Returned(default))
    ELSE Returned(default)

\* Values of every kind a stored record may hold.
CoercionValues ==
    {Null, VBool(TRUE), VBool(FALSE), VFloat(PosInf),
     VStr(<<"inf">>), VStr(<<"x">>), VStr(<< >>), VList(<< >>), VDict(EmptyDict)}
    \cup {VInt(n) : n \in 0..MaxLiteral}
    \cup {VFloat(n) : n \in 0..MaxLiteral}
    \cup {VStr(<<ToString(n)>>) : n \in 0..MaxLiteral}

\* Caller-supplied defaults.
CoercionDefaults == {0, 50}

InitCoerce ==
    /\ op = "coerce"
    /\ input \in {[value |-> v, default |-> d] : v \in CoercionValues, d \in CoercionDefaults}
    /\ output = NoOutput
    /\ NoSession

SafeFloat ==
    /\ op = "coerce"
    /\ output' = [k |-> "_safe_float", result |-> SafeFloatCall(input.value, input.default)]
    /\ op' = "coerced"
    /\ UNCHANGED <<input, cache, store, _last_error>>

SafeInt ==
    /\ op = "coerce"
    /\ output' = [k |-> "_safe_int", result |-> _safe_int(input.value, input.default)]
    /\ op' = "coerced"
    /\ UNCHANGED <<input, cache, store, _last_error>>

NextCoerce == SafeFloat \/ SafeInt

SpecCoerce == InitCoerce /\ [][NextCoerce]_vars

(* -------------------------------- C12 ---------------------------------- *)

\* The number a value converts to, as a set of at most one: an int, a bool,
\* a float or a numeric string converts; nothing else does.
Converts(value, toInt) ==
    CASE value.t \in {"int", "float"} -> {value.v}
      [] value.t = "bool" -> {IF value.b THEN 1 ELSE 0}
      [] value.t = "str" ->
           IF Len(value.s) # 1 THEN {}
           ELSE {n \in 0..MaxLiteral : ToString(n) = value.s[1]}
                \cup (IF value.s[1] = "inf" /\ ~toInt THEN {PosInf} ELSE {})
      [] OTHER -> {}

\* C12: _safe_float and _safe_int never raise; every input returns a
\* number, the default when it cannot be converted.
C12_NeverRaises ==
    op = "coerced" => output.result.k = "returned"

\* The input on which a conversion is outside the try block and fails.
C12_Unconvertible == input.value = VFloat(PosInf) /\ output.k = "_safe_int"

\* On every other input the call returns the converted number, or the
\* default when there is none.
C12_ReturnsElsewhere ==
    (op = "coerced" /\ ~C12_Unconvertible) =>
        /\ output.result.k = "returned"
        /\ LET c == Converts(input.value, output.k = "_safe_int")
           IN  IF c = {} THEN output.result.v = input.default
               ELSE output.result.v \in c

(* ------------------------ per-token USD displays ----------------------- *)
(* Amounts are whole tokens and prices whole cents, so that amount times    *)
(* price is a figure in cents and the two-decimal format shows it exactly.  *)

\* One "A TOKEN ($U)" part of a joined display string.
Part(amount, token, cents) == [amount |-> amount, token |-> token, usd |-> cents]

\* The "; "-joined parts.
Joined(parts) == [form |-> "parts", parts |-> parts]

\* Lines 74-76: one part per item, priced under the item's own key only.
RECURSIVE TokenParts(_, _, _)
TokenParts(token_amounts, i, prices) ==
    IF i > Len(token_amounts) THEN << >>
    ELSE LET token == token_amounts[i][1]
             amount == token_amounts[i][2]
             usd == FMul(PriceOf(prices, token, token), amount)
         IN  <<Part(amount, token, usd)>> \o TokenParts(token_amounts, i + 1, prices)

_format_token_amounts_dict(token_amounts, prices) ==
    IF Len(token_amounts) = 0 THEN TextDash
    ELSE Joined(TokenParts(token_amounts, 1, prices))

\* Lines 82-88: a reward without token or amount is skipped; the others are
\* priced under their own key only and shown under the uppercased symbol.
RECURSIVE RewardParts(_, _, _)
RewardParts(rewards, i, prices) ==
    IF i > Len(rewards) THEN << >>
    ELSE IF "token" \notin DOMAIN rewards[i] \/ "amount" \notin DOMAIN rewards[i]
        THEN RewardParts(rewards, i + 1, prices)
    ELSE LET token == rewards[i].token
             amount == rewards[i].amount
             usd == FMul(PriceOf(prices, token, token), amount)
         IN  <<Part(amount, Upper(token), usd)>> \o RewardParts(rewards, i + 1, prices)

_format_rewards_list(rewards, prices) ==
    IF RewardParts(rewards, 1, prices) = << >> THEN TextDash
    ELSE Joined(RewardParts(rewards, 1, prices))

\* Mutant: a token without a price is counted at a unit price.
RECURSIVE SumRewardsLoop_unit_default(_, _, _, _)
SumRewardsLoop_unit_default(rewards, i, prices, total) ==
    IF i > Len(rewards) THEN total
    ELSE LET price == PriceOf(prices, rewards[i].token, Lower(rewards[i].token))
         IN  SumRewardsLoop_unit_default(rewards, i + 1, prices,
                 FAdd(total, FMul(rewards[i].amount, IF price = 0 THEN 1 ELSE price)))

\* Lines 249-251: total += r.amount * price, the price looked up under the
\* token's own symbol, then its lowercase symbol, else 0.
RECURSIVE SumRewardsLoop(_, _, _, _)
SumRewardsLoop(rewards, i, prices, total) ==
    IF i > Len(rewards) THEN total
    ELSE LET price == PriceOf(prices, rewards[i].token, Lower(rewards[i].token))
         IN  SumRewardsLoop(rewards, i + 1, prices,
                            FAdd(total, FMul(rewards[i].amount, price)))

_sum_rewards_usd(rewards, prices) == SumRewardsLoop(rewards, 1, prices, 0)

(* ----------------------- displays: the machine ------------------------- *)

\* Longest reward list drawn.
MaxRewards == 2

\* Rewards of a tournament: a token symbol in any case and an amount.
DisplayRewards ==
    {[token |-> k, amount |-> a] : k \in {"SPS", "sps", "DEC"}, a \in Amounts}

\* Reward records that lack an attribute.
PartialRewards == {[token |-> "SPS"], [amount |-> 1]}

\* Price tables keyed in lowercase (as fetched), in uppercase, or lacking a
\* token; a price may be zero.
DisplayPrices ==
    {a \o b : a \in SpsQuotes,
              b \in {EmptyDict, <<<<"dec", MaxPrice>>>>, <<<<"DEC", 1>>>>}}

InitDisplay ==
    /\ NoSession
    /\ \/ /\ op = "earnings"
          /\ input \in {[rewards |-> r, prices |-> q] :
                           r \in ListsUpTo(DisplayRewards, MaxRewards), q \in DisplayPrices}
          /\ output = NoOutput
       \/ /\ op = "source_row"
          /\ input \in {[token_amounts |-> d, prices |-> q] :
                           d \in DictsOver({"SPS", "DEC"}, Amounts), q \in DisplayPrices}
          /\ output = NoOutput
       \/ /\ op = "rewards_list"
          /\ input \in {[rewards |-> r, prices |-> q] :
                           r \in ListsUpTo(DisplayRewards \cup PartialRewards, MaxRewards),
                           q \in DisplayPrices}
          /\ output = NoOutput

\* The "Earnings (USD)" column of the tournaments table (line 503).
SumRewardsUsd ==
    /\ op = "earnings"
    /\ output' = [k |-> "usd", total |-> _sum_rewards_usd(input.rewards, input.prices)]
    /\ op' = "earnings_shown"
    /\ UNCHANGED <<input, cache, store, _last_error>>

\* The "Tokens" column of a "Rewards by source" row (lines 436-439).
FormatTokenAmountsDict ==
    /\ op = "source_row"
    /\ output' = [k |-> "text",
                  text |-> _format_token_amounts_dict(input.token_amounts, input.prices)]
    /\ op' = "source_row_shown"
    /\ UNCHANGED <<input, cache, store, _last_error>>

FormatRewardsList ==
    /\ op = "rewards_list"
    /\ output' = [k |-> "text", text |-> _format_rewards_list(input.rewards, input.prices)]
    /\ op' = "rewards_list_shown"
    /\ UNCHANGED <<input, cache, store, _last_error>>

NextDisplay == SumRewardsUsd \/ FormatTokenAmountsDict \/ FormatRewardsList

SpecDisplay == InitDisplay /\ [][NextDisplay]_vars

(* ------------------------------ C14, C15 ------------------------------- *)

\* The price the table holds for a token: under its exact symbol, else
\* under its lowercase symbol, else none (0); a zero price is no price.
TablePrice(prices, token) ==
    IF token \in DictKeys(prices) /\ AsMap(prices)[token] # 0 THEN AsMap(prices)[token]
    ELSE IF Lower(token) \in DictKeys(prices) THEN AsMap(prices)[Lower(token)]
    ELSE 0

\* The table holds no price for the token under any spelling.
NoPrice(prices, token) ==
    \A k \in DictKeys(prices) : Upper(k) = Upper(token) => AsMap(prices)[k] = 0

\* Sum of amount times price over the rewards whose token has a price.
RECURSIVE PricedSum(_, _, _)
PricedSum(rewards, I, prices) ==
    IF I = {} THEN 0
    ELSE LET i == CHOOSE x \in I : TRUE
         IN  rewards[i].amount * TablePrice(prices, rewards[i].token)
             + PricedSum(rewards, I \ {i}, prices)

\* C14: a token without a price contributes exactly 0 and raises nothing:
\* _sum_rewards_usd is the sum of amount times price over the rewards whose
\* token has a price, and _format_token_amounts_dict shows $0.00 for a token
\* without a price.
C14_MissingPriceIsZero ==
    /\ op = "earnings_shown" =>
         output.total =
            PricedSum(input.rewards,
                      {i \in DOMAIN input.rewards :
                          TablePrice(input.prices, input.rewards[i].token) # 0},
                      input.prices)
    /\ op = "source_row_shown" =>
         /\ Len(input.token_amounts) > 0 =>
              /\ output.text.form = "parts"
              /\ Len(output.text.parts) = Len(input.token_amounts)
              /\ \A i \in DOMAIN input.token_amounts :
                    /\ output.text.parts[i].token = input.token_amounts[i][1]
                    /\ NoPrice(input.prices, input.token_amounts[i][1])
                         => output.text.parts[i].usd = 0

\* A priced and an unpriced reward in one list: only the priced one counts.
C14_Witness ==
    /\ op = "earnings_shown"
    /\ Len(input.rewards) = 2
    /\ NoPrice(input.prices, input.rewards[1].token)
    /\ TablePrice(input.prices, input.rewards[2].token) # 0
    /\ output.total = input.rewards[2].amount * TablePrice(input.prices, input.rewards[2].token)

\* The same for the token display: DEC has no price and shows $0.00.
C14_WitnessDisplay ==
    /\ op = "source_row_shown"
    /\ DictKeys(input.token_amounts) = {"SPS", "DEC"}
    /\ NoPrice(input.prices, "DEC")
    /\ \E i \in DOMAIN output.text.parts :
          output.text.parts[i].token = "DEC" /\ output.text.parts[i].usd = 0

\* The parts shown for a list of (token, amount) pairs when each is priced
\* under its exact symbol first and then under its lowercase symbol.
PricedEverywhere(parts, pairs, prices) ==
    /\ Len(parts) = Len(pairs)
    /\ \A i \in DOMAIN pairs :
          parts[i].usd = pairs[i][2] * TablePrice(prices, pairs[i][1])

\* The rewards of a list that carry both a token and an amount, in order.
RECURSIVE Complete(_, _)
Complete(rewards, i) ==
    IF i > Len(rewards) THEN << >>
    ELSE (IF {"token", "amount"} \subseteq DOMAIN rewards[i]
          THEN <<<<rewards[i].token, rewards[i].amount>>>> ELSE << >>)
         \o Complete(rewards, i + 1)

\* C15: every USD computation prices a token under its exact symbol first
\* and then under its lowercase symbol, so that "SPS" is priced from a table
\* keyed "sps": in _sum_rewards_usd, in _format_token_amounts_dict and in
\* _format_rewards_list.
C15_ExactThenLowercase ==
    /\ op = "earnings_shown" =>
         output.total = PricedSum(input.rewards, DOMAIN input.rewards, input.prices)
    /\ (op = "source_row_shown" /\ Len(input.token_amounts) > 0) =>
         PricedEverywhere(output.text.parts, input.token_amounts, input.prices)
    /\ (op = "rewards_list_shown" /\ Complete(input.rewards, 1) # << >>) =>
         PricedEverywhere(output.text.parts, Complete(input.rewards, 1), input.prices)

\* The part that holds: per-tournament earnings do fall back to the
\* lowercase symbol.
C15_EarningsFallBack ==
    op = "earnings_shown" =>
        output.total = PricedSum(input.rewards, DOMAIN input.rewards, input.prices)

\* An uppercase reward token priced from a lowercase table.
C15_EarningsExample ==
    /\ op = "earnings_shown"
    /\ input.rewards = <<[token |-> "SPS", amount |-> MaxAmount]>>
    /\ input.prices = <<<<"sps", MaxPrice>>>>
    /\ output.total = MaxAmount * MaxPrice

(* --------------- season filter and forward aggregation ----------------- *)
(* scholar_helper.services.aggregation is imported by app.py (line 11) but *)
(* its source is not in the tree; the two operations are written from      *)
(* sections 4.2 and 4.3 of the specification.  Amounts are whole tokens,   *)
(* prices whole cents, USD figures cents.                                  *)

Season == [id |-> 205, starts |-> 1, ends |-> 3]

\* A tournament counts for the season when it has a start date in
\* [season.starts, season.ends).
InSeasonWindow(t, season) ==
    /\ t.start_date.t # "null"
    /\ season.starts <= t.start_date.v
    /\ t.start_date.v < season.ends

\* Mutant: the end of the window is included.
filter_tournaments_closed(tournaments, season) ==
    SelectSeq(tournaments,
              LAMBDA t : /\ t.start_date.t # "null"
                         /\ season.starts <= t.start_date.v
                         /\ t.start_date.v <= season.ends)

filter_tournaments_for_season(tournaments, season) ==
    SelectSeq(tournaments, LAMBDA t : InSeasonWindow(t, season))

\* Token/amount pairs summed per uppercase token.
RECURSIVE SumTokens(_, _, _)
SumTokens(entries, i, acc) ==
    IF i > Len(entries) THEN acc
    ELSE LET key == Upper(entries[i].token)
         IN  SumTokens(entries, i + 1,
                       DictSet(acc, key, FAdd(DictGet(acc, key, 0), entries[i].amount)))

\* Sum of amount times price, a missing price counting 0; the price is
\* looked up under the exact symbol, then under the lowercase one.
RECURSIVE SumUsd(_, _, _)
SumUsd(entries, i, prices) ==
    IF i > Len(entries) THEN 0
    ELSE FAdd(FMul(entries[i].amount,
                   PriceOf(prices, entries[i].token, Lower(entries[i].token))),
              SumUsd(entries, i + 1, prices))

BucketTotals(entries, prices) ==
    CategoryTotals(SumTokens(entries, 1, EmptyDict), SumUsd(entries, 1, prices))

RECURSIVE TournamentRewards(_, _)
TournamentRewards(tournaments, i) ==
    IF i > Len(tournaments) THEN << >>
    ELSE tournaments[i].rewards \o TournamentRewards(tournaments, i + 1)

RECURSIVE TournamentFees(_, _)
TournamentFees(tournaments, i) ==
    IF i > Len(tournaments) THEN << >>
    ELSE (IF tournaments[i].entry_fee.t = "null" THEN << >>
          ELSE <<tournaments[i].entry_fee>>)
         \o TournamentFees(tournaments, i + 1)

\* Mutant: entry fees are netted out of the overall USD figure.
OverallTotals_net_of_fees(ranked, brawl, tournament, entry_fees) ==
    CategoryTotals(
        _merge_token_amounts(<<ranked.token_amounts, brawl.token_amounts,
                               tournament.token_amounts, entry_fees.token_amounts>>),
        IF FAdd(FAdd(ranked.usd, brawl.usd), tournament.usd) >= entry_fees.usd
        THEN FAdd(FAdd(ranked.usd, brawl.usd), tournament.usd) - entry_fees.usd
        ELSE 0)

\* Forward reconciliation: union of the token maps, sum of the USD values.
OverallTotals(ranked, brawl, tournament, entry_fees) ==
    CategoryTotals(
        _merge_token_amounts(<<ranked.token_amounts, brawl.token_amounts,
                               tournament.token_amounts, entry_fees.token_amounts>>),
        FAdd(FAdd(FAdd(ranked.usd, brawl.usd), tournament.usd), entry_fees.usd))

aggregate_totals(season, rewards, tournaments, prices) ==
    LET season_tournaments == filter_tournaments_for_season(tournaments, season)
        ranked == BucketTotals(SelectSeq(rewards, LAMBDA r : r.category = "ranked"), prices)
        brawl == BucketTotals(SelectSeq(rewards, LAMBDA r : r.category = "brawl"), prices)
        tournament == BucketTotals(TournamentRewards(season_tournaments, 1), prices)
        entry_fees == BucketTotals(TournamentFees(season_tournaments, 1), prices)
    IN  AggregatedTotals(ranked, brawl, tournament, entry_fees,
                         OverallTotals(ranked, brawl, tournament, entry_fees))

(* --------------------- aggregation: the machine ------------------------ *)

\* Most records (rewards plus tournaments) drawn for one aggregation.
MaxRecords == 3

\* Latest start date drawn; the season of the model runs from 1 to 3.
MaxTime == 3

RewardEntry(token, amount, category) ==
    [t |-> "reward", token |-> token, amount |-> amount, category |-> category]

RewardEntries ==
    {RewardEntry("SPS", 1, "ranked"), RewardEntry("sps", MaxAmount, "brawl"),
     RewardEntry("DEC", 1, "brawl"), RewardEntry("ETH", MaxAmount, "other")}

\* Paid tournaments with a reward at every start date (and without one),
\* and a free one in mid-season that paid nothing.
TournamentResults ==
    {[start_date |-> d, entry_fee |-> RewardEntry("DEC", 1, "fee"),
      rewards |-> <<RewardEntry("SPS", MaxAmount, "tournament")>>] :
        d \in {Null} \cup {VInt(n) : n \in 0..MaxTime}}
    \cup {[start_date |-> VInt(Season.starts + 1), entry_fee |-> Null, rewards |-> << >>]}

AggregationPrices ==
    {EmptyDict, <<<<"sps", 1>>>>, <<<<"SPS", MaxPrice>>, <<"dec", 1>>>>,
     <<<<"sps", 1>>, <<"dec", MaxPrice>>, <<"eth", 1>>>>}

\* Fetched data: n rewards and at most MaxRecords - n tournaments.
AggregationInputs ==
    UNION {{[season |-> Season, rewards |-> r, tournaments |-> t, prices |-> q] :
                r \in {l \in ListsUpTo(RewardEntries, n) : Len(l) = n},
                t \in ListsUpTo(TournamentResults, MaxRecords - n),
                q \in AggregationPrices} : n \in 0..MaxRecords}

InitAggregate ==
    /\ op = "fetched"
    /\ input \in AggregationInputs
    /\ output = NoOutput
    /\ NoSession

\* The tournaments tab narrowing a user's tournaments to the season.
FilterTournamentsForSeason ==
    /\ op = "fetched"
    /\ output' = [k |-> "filtered",
                  list |-> filter_tournaments_for_season(input.tournaments, input.season)]
    /\ op' = "filtered"
    /\ UNCHANGED <<input, cache, store, _last_error>>

\* The summary tab aggregating the fetched records.
AggregateTotals ==
    /\ op = "fetched"
    /\ output' = [k |-> "totals",
                  totals |-> aggregate_totals(input.season, input.rewards,
                                              input.tournaments, input.prices)]
    /\ op' = "aggregated"
    /\ UNCHANGED <<input, cache, store, _last_error>>

NextAggregate == FilterTournamentsForSeason \/ AggregateTotals

SpecAggregate == InitAggregate /\ [][NextAggregate]_vars

(* ------------------------------ C2, C3 --------------------------------- *)

\* C2: for every reward list, tournament list and price table (incomplete
\* ones included) the aggregate's overall.usd is ranked.usd + brawl.usd +
\* tournament.usd + entry_fees.usd.
C2_OverallUsdIsSum ==
    op = "aggregated" =>
        output.totals.overall.usd =
            output.totals.ranked.usd + output.totals.brawl.usd
            + output.totals.tournament.usd + output.totals.entry_fees.usd

\* All four categories carry a USD value, under a table that prices DEC
\* and SPS but not ETH.
C2_Witness ==
    /\ op = "aggregated"
    /\ output.totals.ranked.usd > 0 /\ output.totals.brawl.usd > 0
    /\ output.totals.tournament.usd > 0 /\ output.totals.entry_fees.usd > 0
    /\ "eth" \notin DictKeys(input.prices)
    /\ output.totals.overall.usd =
         output.totals.ranked.usd + output.totals.brawl.usd
         + output.totals.tournament.usd + output.totals.entry_fees.usd

\* C3: the season filter keeps exactly the tournaments whose start_date
\* lies in [season.starts, season.ends) (start kept, end dropped, no date
\* dropped), as a sub-list of its input in input order with the
\* tournaments unchanged, and is an operation of its own.
C3_HalfOpenFilter ==
    op = "filtered" =>
        /\ output.list =
             SelectSeq(input.tournaments,
                       LAMBDA t : /\ t.start_date # Null
                                  /\ t.start_date.v >= input.season.starts
                                  /\ t.start_date.v < input.season.ends)
        /\ \A i \in DOMAIN input.tournaments :
             LET t == input.tournaments[i]
                 kept == \E j \in DOMAIN output.list : output.list[j] = t
             IN  /\ t.start_date = VInt(input.season.starts) => kept
                 /\ t.start_date = VInt(input.season.ends) => ~kept
                 /\ t.start_date = Null => ~kept

\* A tournament starting at season.starts is kept and one starting at
\* season.ends is dropped.
C3_Witness ==
    /\ op = "filtered"
    /\ Len(input.tournaments) = 2
    /\ input.tournaments[1].start_date = VInt(input.season.ends)
    /\ input.tournaments[2].start_date = VInt(input.season.starts)
    /\ output.list = <<input.tournaments[2]>>


(* ---------------------------- cached fetchers -------------------------- *)
(* main() runs from top to bottom on every interaction with the page.  The *)
(* fetchers are wrapped in st.cache_data: a call is answered from the      *)
(* cache when it holds an entry, and otherwise calls the API, which fails  *)
(* or returns data that is then cached.                                    *)

\* What the reward-history API holds for a user: lorkus has earned `amount`
\* SPS in ranked play, vorkus one DEC in brawls.
UserRewards(username, amount) ==
    IF username = "lorkus" THEN <<RewardEntry("SPS", amount, "ranked")>>
    ELSE <<RewardEntry("DEC", 1, "brawl")>>

\* What the tournaments API holds for a user: one tournament of the season.
UserTournaments(username) ==
    <<[id |-> IF username = "lorkus" THEN 1 ELSE 2,
       start_date |-> VInt(Season.starts), entry_fee |-> Null,
       rewards |-> <<RewardEntry(IF username = "lorkus" THEN "SPS" ELSE "DEC",
                                 1, "tournament")>>]>>

\* What the price API returns.
FetchedPrices == <<<<"sps", 1>>, <<"eth", MaxPrice>>>>

\* A call of a cached fetcher: the cached value, or the outcome of the API
\* call, which is cached when it is a value and not when it is an exception.
CachedCall(entry, outcome) ==
    IF entry.k = "hit" THEN [result |-> Returned(entry.v), entry |-> entry]
    ELSE IF outcome.k = "raised" THEN [result |-> Raised, entry |-> Miss]
    ELSE [result |-> outcome, entry |-> Hit(outcome.v)]

\* The API call a cached call of fetcher `name` leads to: none when the
\* entry is cached.
ApiCall(entry, name, username) == IF entry.k = "hit" THEN {} ELSE {<<name, username>>}

\* Mutant: only the tournaments cache is cleared.
clear_caches_tournaments_only(c) ==
    [c EXCEPT !.tournaments = [u \in Users |-> Miss]]

\* Lines 51-55.
clear_caches(c) == EmptyCache

(* ------------------------------ summary tab ---------------------------- *)

\* Lines 341-347: the accumulators of the fetch loop.
LoopStart(c) ==
    [cache |-> c, calls |-> {}, fetched |-> << >>, reward_rows |-> << >>,
     tournament_rows |-> << >>, per_user_totals |-> << >>, warnings |-> << >>]

\* `body` with `value` for its parameter, `value` being evaluated once.
With(value, body(_)) == CHOOSE result \in {body(x) : x \in {value}} : TRUE

\* Mutant: the rewards of a user are added to the combined list before
\* their tournaments are fetched.
FetchUser_extend_early(username, outs, prices, acc) ==
    LET r == CachedCall(acc.cache.rewards[username], outs.rewards[username])
        c1 == [acc.cache EXCEPT !.rewards[username] = r.entry]
        t == CachedCall(c1.tournaments[username], outs.tournaments[username])
        c2 == [c1 EXCEPT !.tournaments[username] = t.entry]
        called1 == acc.calls \cup ApiCall(acc.cache.rewards[username], "rewards", username)
        called2 == called1 \cup ApiCall(c1.tournaments[username], "tournaments", username)
    IN  IF r.result.k = "raised"
        THEN [acc EXCEPT !.calls = called1, !.warnings = Append(@, username)]
        ELSE IF t.result.k = "raised"
        THEN [acc EXCEPT !.cache = c1, !.calls = called2,
                         !.warnings = Append(@, username),
                         !.reward_rows = @ \o r.result.v]
        ELSE [acc EXCEPT !.cache = c2, !.calls = called2,
                         !.fetched = Append(@, [username |-> username,
                                                rewards |-> r.result.v,
                                                tournaments |-> t.result.v]),
                         !.reward_rows = @ \o r.result.v,
                         !.tournament_rows = @ \o t.result.v,
                         !.per_user_totals =
                             Append(@, [username |-> username,
                                        totals |-> aggregate_totals(Season, r.result.v,
                                                                    t.result.v, prices)])]

\* Lines 350-366, the body of the fetch loop: the two cached fetches of a
\* user inside one try; an exception warns and skips the user, otherwise
\* their records join the combined lists and their aggregate joins
\* per_user_totals.
FetchUser(username, outs, prices, acc) ==
    LET r == CachedCall(acc.cache.rewards[username], outs.rewards[username])
        c1 == [acc.cache EXCEPT !.rewards[username] = r.entry]
        t == CachedCall(c1.tournaments[username], outs.tournaments[username])
        c2 == [c1 EXCEPT !.tournaments[username] = t.entry]
        called1 == acc.calls \cup ApiCall(acc.cache.rewards[username], "rewards", username)
        called2 == called1 \cup ApiCall(c1.tournaments[username], "tournaments", username)
    IN  IF r.result.k = "raised"
        THEN [acc EXCEPT !.calls = called1, !.warnings = Append(@, username)]
        ELSE IF t.result.k = "raised"
        THEN [acc EXCEPT !.cache = c1, !.calls = called2,
                         !.warnings = Append(@, username)]
        ELSE [acc EXCEPT !.cache = c2, !.calls = called2,
                         !.fetched = Append(@, [username |-> username,
                                                rewards |-> r.result.v,
                                                tournaments |-> t.result.v]),
                         !.reward_rows = @ \o r.result.v,
                         !.tournament_rows = @ \o t.result.v,
                         !.per_user_totals =
                             Append(@, [username |-> username,
                                        totals |-> aggregate_totals(Season, r.result.v,
                                                                    t.result.v, prices)])]

\* Line 349: for username in usernames.
RECURSIVE FetchLoop(_, _, _, _, _)
FetchLoop(usernames, i, outs, prices, acc) ==
    IF i > Len(usernames) THEN acc
    ELSE With(FetchUser(usernames[i], outs, prices, acc),
              LAMBDA next : FetchLoop(usernames, i + 1, outs, prices, next))

(* ------------------------------- storage ------------------------------- *)
(* A storage call works on st = [store, err]: the two tables and           *)
(* _last_error.  The outcome of its HTTP request is "ok" (a status below   *)
(* 300, the request applied), "rejected" (a status of 300 or above,        *)
(* nothing applied) or "raised" (requests raised, nothing applied).        *)

HttpOutcomes == {"ok", "rejected", "raised"}

\* Mutant: credentials found, the slot is left as the earlier call set it.
get_supabase_client_keeps_error(configured, st) ==
    [creds |-> configured,
     st |-> [st EXCEPT !.err = IF configured THEN @ ELSE "Missing SUPABASE_URL or key"]]

\* get_supabase_client: the credentials (here: whether there are any), and
\* _last_error set to the missing-credentials message or cleared.
get_supabase_client(configured, st) ==
    [creds |-> configured,
     st |-> [st EXCEPT !.err = IF configured THEN "None" ELSE "Missing SUPABASE_URL or key"]]

\* The key of a row of a table.
RowKey(table, row) ==
    IF table = "season_rewards" THEN <<row.username, row.season_id>>
    ELSE <<row.username, row.tournament_id>>

\* Mutant: a posted row replaces the whole row of the same key.
MergeDuplicates_replace(table, rows, row) ==
    {r \in rows : RowKey(table, r) # RowKey(table, row)} \cup {row}

\* "Prefer: resolution=merge-duplicates": a posted row replaces the columns
\* it names in the row of the same key, or is inserted.
MergeDuplicates(table, rows, row) ==
    LET same == {r \in rows : RowKey(table, r) = RowKey(table, row)}
    IN  (rows \ same) \cup (IF same = {} THEN {row} ELSE {row @@ r : r \in same})

RECURSIVE MergeAll(_, _, _, _)
MergeAll(table, rows, posted, i) ==
    IF i > Len(posted) THEN rows
    ELSE MergeAll(table, MergeDuplicates(table, rows, posted[i]), posted, i + 1)

\* Lines 68-78: the POST; a status of 300 or above is noted in _last_error
\* and nothing is raised or returned.
_postgrest_upsert(st, table, posted, outcome) ==
    IF outcome = "raised" THEN [result |-> Raised, st |-> st]
    ELSE IF outcome = "rejected"
    THEN [result |-> ReturnedNone, st |-> [st EXCEPT !.err = "Supabase upsert failed"]]
    ELSE [result |-> ReturnedNone,
          st |-> [st EXCEPT !.store[table] = MergeAll(table, @, posted, 1)]]

\* Mutant: the posted row does not carry payout_currency.
SeasonRow_without_currency(season, username, totals, scholar_pct, payout_currency) ==
    [f \in {"season_id", "username", "overall_usd", "scholar_pct"} |->
        ([season_id |-> VInt(season.id), username |-> VStr(<<username>>)]
         @@ SeasonPayload(totals, scholar_pct, payout_currency))[f]]

\* The row upsert_season_totals posts.
SeasonRow(season, username, totals, scholar_pct, payout_currency) ==
    [season_id |-> VInt(season.id), username |-> VStr(<<username>>)]
    @@ SeasonPayload(totals, scholar_pct, payout_currency)

\* Lines 91-121.
upsert_season_totals(configured, st, season, username, totals, scholar_pct, payout_currency, outcome) ==
    LET client == get_supabase_client(configured, st)
    IN  IF ~client.creds THEN [result |-> ReturnedNone, st |-> client.st]
        ELSE _postgrest_upsert(client.st, "season_rewards",
                               <<SeasonRow(season, username, totals, scholar_pct,
                                           payout_currency)>>,
                               outcome)

\* The rows upsert_tournament_logs posts (key columns only).
RECURSIVE LogRows(_, _, _)
LogRows(tournaments, username, i) ==
    IF i > Len(tournaments) THEN << >>
    ELSE <<[username |-> VStr(<<username>>), tournament_id |-> VInt(tournaments[i].id)]>>
         \o LogRows(tournaments, username, i + 1)

upsert_tournament_logs(configured, st, tournaments, username, outcome) ==
    LET client == get_supabase_client(configured, st)
    IN  IF ~client.creds THEN [result |-> ReturnedNone, st |-> client.st]
        ELSE IF LogRows(tournaments, username, 1) = << >>
        THEN [result |-> ReturnedNone, st |-> client.st]
        ELSE _postgrest_upsert(client.st, "tournament_logs",
                               LogRows(tournaments, username, 1), outcome)

\* The rows of a set in the order "season_id.desc".
RECURSIVE BySeasonDesc(_)
BySeasonDesc(rows) ==
    IF rows = {} THEN << >>
    ELSE LET top == CHOOSE r \in rows : \A q \in rows : q.season_id.v <= r.season_id.v
         IN  <<top>> \o BySeasonDesc(rows \ {top})

\* Lines 151-174.
fetch_season_history(configured, st, username, outcome) ==
    LET client == get_supabase_client(configured, st)
    IN  IF ~client.creds THEN [result |-> Returned(<< >>), st |-> client.st]
        ELSE IF outcome = "raised" THEN [result |-> Raised, st |-> client.st]
        ELSE IF outcome = "rejected"
        THEN [result |-> Returned(<< >>),
              st |-> [client.st EXCEPT !.err = "Supabase fetch failed"]]
        ELSE [result |-> Returned(BySeasonDesc({r \in client.st.store.season_rewards :
                                                   r.username = VStr(<<username>>)})),
              st |-> client.st]

\* Mutant: the PATCH carries no season filter.
PatchCurrency_all_seasons(rows, username, season_id, currency) ==
    {IF r.username = VStr(<<username>>)
     THEN [payout_currency |-> VStr(<<currency>>)] @@ r
     ELSE r : r \in rows}

\* The PATCH of payout_currency on the rows "username=eq.. & season_id=eq..".
PatchCurrency(rows, username, season_id, currency) ==
    {IF r.username = VStr(<<username>>) /\ r.season_id = VInt(season_id)
     THEN [payout_currency |-> VStr(<<currency>>)] @@ r
     ELSE r : r \in rows}

\* Lines 177-194.
update_season_currency(configured, st, username, season_id, currency, outcome) ==
    LET client == get_supabase_client(configured, st)
    IN  IF ~client.creds THEN [result |-> Returned(FALSE), st |-> client.st]
        ELSE IF outcome = "raised" THEN [result |-> Raised, st |-> client.st]
        ELSE IF outcome = "rejected"
        THEN [result |-> Returned(FALSE),
              st |-> [client.st EXCEPT !.err = "Supabase update failed"]]
        ELSE [result |-> Returned(TRUE),
              st |-> [client.st EXCEPT !.store.season_rewards =
                          PatchCurrency(@, username, season_id, currency)]]

(* ------------------------------- main() -------------------------------- *)
(* One run of the script over w = [cache, st]: ui holds the widget values  *)
(* and the button that was clicked, outs the outcome of each API call a    *)
(* cache miss leads to, http the outcome of each storage request.  The     *)
(* result is the new w and the page that was rendered.                     *)

\* The page of a run that ended at `view`.
Page(view, loop, shown) ==
    [k |-> "page", view |-> view, cleared |-> FALSE, calls |-> loop.calls,
     warnings |-> loop.warnings, fetched |-> loop.fetched,
     per_user_totals |-> loop.per_user_totals,
     reward_rows |-> loop.reward_rows, tournament_rows |-> loop.tournament_rows]
    @@ shown

\* What a run shows beyond the fetch loop when it ends early.
NothingShown ==
    [currency |-> << >>, totals |-> Null, payouts |-> << >>, messages |-> {}, issued |-> << >>,
     history |-> << >>, saved |-> Null]

\* Lines 387-394: currency_choices, one select box per entry of
\* per_user_totals; `chosen` holds the value of the box at each position.
CurrencyChoice(chosen, i) == IF i \in DOMAIN chosen THEN chosen[i] ELSE "SPS"

\* Mutant: the payout is shown in the currency of the stored snapshot of
\* the user, when there is one.
PayoutColumn_stored_currency(per_user_totals, chosen, scholar_pct, prices) ==
    [i \in DOMAIN per_user_totals |->
        LET rows == {r \in store.season_rewards :
                        /\ r.username = VStr(<<per_user_totals[i].username>>)
                        /\ r.season_id = VInt(Season.id)
                        /\ "payout_currency" \in DOMAIN r}
        IN  _format_scholar_payout(
                IF rows = {} THEN CurrencyChoice(chosen, i)
                ELSE (CHOOSE r \in rows : TRUE).payout_currency.s[1],
                per_user_totals[i].totals, scholar_pct, prices, Null)]

\* Lines 400-405: the payout column of the share table.
PayoutColumn(per_user_totals, chosen, scholar_pct, prices) ==
    [i \in DOMAIN per_user_totals |->
        _format_scholar_payout(CurrencyChoice(chosen, i), per_user_totals[i].totals,
                               scholar_pct, prices, Null)]

\* user_tournaments_by_user.get(username, []): the tournaments of the last
\* fetched entry of that name.
TournamentsOf(fetched, username) ==
    LET I == {i \in DOMAIN fetched : fetched[i].username = username}
    IN  IF I = {} THEN << >>
        ELSE fetched[CHOOSE i \in I : \A j \in I : j <= i].tournaments

\* Lines 456-468: the two upserts per user inside one try; an exception
\* reports the user and ends the loop; "Synced to Supabase." is shown
\* unless an exception was caught.
RECURSIVE SyncLoop(_, _, _, _, _)
SyncLoop(loop, i, ui, http, acc) ==
    IF i > Len(loop.per_user_totals)
    THEN [acc EXCEPT !.messages = @ \cup {"Synced to Supabase."}]
    ELSE LET username == loop.per_user_totals[i].username
             totals == upsert_season_totals(ui.configured, acc.st, Season, username,
                                            loop.per_user_totals[i].totals,
                                            ui.scholar_pct, CurrencyChoice(ui.currency, i),
                                            http.totals[i])
             logs == upsert_tournament_logs(ui.configured, totals.st,
                                            TournamentsOf(loop.fetched, username),
                                            username, http.logs[i])
             sent1 == Append(acc.issued, [username |-> username, table |-> "season_rewards",
                                          outcome |-> http.totals[i]])
             sent2 == Append(sent1, [username |-> username, table |-> "tournament_logs",
                                     outcome |-> http.logs[i]])
         IN  IF totals.result.k = "raised"
             THEN [acc EXCEPT !.st = totals.st, !.issued = sent1,
                              !.messages = @ \cup {"Failed to sync " \o username}]
             ELSE IF logs.result.k = "raised"
             THEN [acc EXCEPT !.st = logs.st, !.issued = sent2,
                              !.messages = @ \cup {"Failed to sync " \o username}]
             ELSE SyncLoop(loop, i + 1, ui, http,
                           [acc EXCEPT !.st = logs.st, !.issued = sent2])

\* Lines 565-594: the rows of the history table.
HistoryRows(records, prices) ==
    [i \in DOMAIN records |->
        [season_id |-> RecGet(records[i], "season_id"),
         currency |-> RecordPayoutCurrency(records[i]),
         payout |-> HistoryPayoutDisplay(records[i],
                                         _aggregated_totals_from_record(records[i]), prices)]]

\* Lines 613-637: the "Save currency" buttons of the first two records; a
\* click on the one of record ui.idx updates that record's currency.
SaveButtons(cache1, st1, shown, records, ui, http) ==
    IF ui.click # "save" \/ ui.idx > Len(records) \/ ui.idx > 2
    THEN [cache |-> cache1, st |-> st1, page |-> shown, rerun |-> FALSE]
    ELSE With(update_season_currency(ui.configured, st1, ui.history_username,
                                     _safe_int(RecGet(records[ui.idx], "season_id"), 0).v,
                                     ui.selected_currency, http.patch),
              LAMBDA update :
                 IF update.result.k = "raised"
                 THEN [cache |-> cache1, st |-> update.st, rerun |-> FALSE,
                       page |-> [shown EXCEPT !.view = "exception",
                                              !.saved = VStr(<<"raised">>)]]
                 ELSE IF update.result.v
                 THEN [cache |-> cache1, st |-> update.st, rerun |-> TRUE,
                       page |-> [shown EXCEPT !.saved = VBool(TRUE)]]
                 ELSE [cache |-> cache1, st |-> update.st, rerun |-> FALSE,
                       page |-> [shown EXCEPT !.saved = VBool(FALSE),
                                    !.messages = @ \cup
                                       {"Failed to update the payout currency"}]])

\* Lines 553-611: the history of the scholar is fetched and shown.
HistoryTable(cache1, page, ui, http, prices, fetched) ==
    IF fetched.result.k = "raised"
    THEN [cache |-> cache1, st |-> fetched.st, rerun |-> FALSE,
          page |-> [page EXCEPT !.view = "exception"]]
    ELSE IF fetched.result.v = << >>
    THEN [cache |-> cache1, st |-> fetched.st, rerun |-> FALSE,
          page |-> [page EXCEPT !.messages = @ \cup
                      {IF fetched.st.err # "None" THEN "Failed to load history"
                       ELSE "No history records found"}]]
    ELSE With([page EXCEPT !.history = HistoryRows(fetched.result.v, prices)],
              LAMBDA shown :
                 SaveButtons(cache1, fetched.st, shown, fetched.result.v, ui, http))

\* Lines 525-637: the history tab, after the tabs above it have rendered
\* `page`.
HistoryTab(cache1, st1, page, ui, http, prices) ==
    IF ui.history_username = ""
    THEN [cache |-> cache1, st |-> st1, page |-> page, rerun |-> FALSE]
    ELSE LET client == get_supabase_client(ui.configured, st1)
         IN  IF ~client.creds
             THEN [cache |-> cache1, st |-> client.st, rerun |-> FALSE,
                   page |-> [page EXCEPT !.messages = @ \cup {"history disabled"}]]
             ELSE With(fetch_season_history(ui.configured, client.st,
                                            ui.history_username, http.get),
                       LAMBDA fetched :
                          HistoryTable(cache1, page, ui, http, prices, fetched))

\* Lines 478-523: the tournaments tab, after the summary tab has rendered
\* `summary` and left the storage at st1.
TournamentsTab(ui, outs, season, prices, loop, st1, summary) ==
    LET tour == CachedCall(loop.cache.tournaments[ui.tour_user],
                           outs.tournaments[ui.tour_user])
        c3 == [loop.cache EXCEPT !.tournaments[ui.tour_user] = tour.entry]
        called3 == loop.calls \cup ApiCall(loop.cache.tournaments[ui.tour_user],
                                           "tournaments", ui.tour_user)
    IN  IF ui.click = "reload"
        THEN [cache |-> loop.cache, st |-> st1, done |-> TRUE, clear |-> TRUE,
              page |-> summary]
        ELSE IF tour.result.k = "raised"
        THEN [cache |-> loop.cache, st |-> st1, done |-> TRUE, clear |-> FALSE,
              page |-> [summary EXCEPT !.view = "tournaments_failed", !.calls = called3]]
        ELSE IF filter_tournaments_for_season(tour.result.v, season) = << >>
        THEN [cache |-> c3, st |-> st1, done |-> TRUE, clear |-> FALSE,
              page |-> [summary EXCEPT !.view = "no_tournaments", !.calls = called3]]
        ELSE [cache |-> c3, st |-> st1, done |-> FALSE, clear |-> FALSE,
              page |-> [summary EXCEPT !.calls = called3], prices |-> prices]

\* Lines 450-476: the persistence block of the summary tab.
Persistence(st1, ui, http, loop) ==
    LET client == get_supabase_client(ui.configured, st1)
    IN  IF client.creds /\ ui.click = "sync"
        THEN SyncLoop(loop, 1, ui, http,
                      [st |-> client.st, messages |-> {}, issued |-> << >>])
        ELSE [st |-> client.st, issued |-> << >>,
              messages |-> IF client.creds THEN {} ELSE {"persistence disabled"}]

\* Lines 368-476: the summary tab once the fetch loop has run.
SummaryTab(w, ui, outs, http, season, prices, loop) ==
    IF loop.reward_rows = << >> /\ loop.tournament_rows = << >>
    THEN [cache |-> loop.cache, st |-> w.st, done |-> TRUE, clear |-> FALSE,
          page |-> Page("no_data", loop, NothingShown)]
    ELSE With(Persistence(w.st, ui, http, loop),
              LAMBDA synced :
                 With(Page("summary", loop,
                           [NothingShown EXCEPT
                              !.currency = ui.currency,
                              !.totals = aggregate_totals(season, loop.reward_rows,
                                                          loop.tournament_rows, prices),
                              !.payouts = PayoutColumn(loop.per_user_totals, ui.currency,
                                                       ui.scholar_pct, prices),
                              !.messages = synced.messages, !.issued = synced.issued]),
                      LAMBDA summary :
                         TournamentsTab(ui, outs, season, prices, loop, synced.st, summary)))

\* Lines 292-523: the script down to the end of the tournaments tab.
UpperTabs(w, ui, outs, http) ==
    LET season == CachedCall(w.cache.season, outs.season)
        c1 == [w.cache EXCEPT !.season = season.entry]
        quotes == CachedCall(c1.prices, outs.prices)
        c2 == [c1 EXCEPT !.prices = quotes.entry]
        called1 == ApiCall(w.cache.season, "season", "")
        called2 == called1 \cup ApiCall(c1.prices, "prices", "")
    IN  IF season.result.k = "raised"
        THEN [cache |-> w.cache, st |-> w.st, done |-> TRUE, clear |-> FALSE,
              page |-> Page("base_failed", [LoopStart(w.cache) EXCEPT !.calls = called1],
                           NothingShown)]
        ELSE IF quotes.result.k = "raised"
        THEN [cache |-> c1, st |-> w.st, done |-> TRUE, clear |-> FALSE,
              page |-> Page("base_failed", [LoopStart(c1) EXCEPT !.calls = called2],
                           NothingShown)]
        ELSE IF ui.click = "refresh"
        THEN [cache |-> c2, st |-> w.st, done |-> TRUE, clear |-> TRUE,
              page |-> Page("rerun", [LoopStart(c2) EXCEPT !.calls = called2], NothingShown)]
        ELSE With(FetchLoop(ui.usernames, 1, outs, quotes.result.v,
                            [LoopStart(c2) EXCEPT !.calls = called2]),
                  LAMBDA loop :
                     SummaryTab(w, ui, outs, http, season.result.v, quotes.result.v, loop))

\* One pass over the script.
Pass(w, ui, outs, http) ==
    With(UpperTabs(w, ui, outs, http),
         LAMBDA upper :
            IF upper.done
            THEN [cache |-> IF upper.clear THEN clear_caches(upper.cache) ELSE upper.cache,
                  st |-> upper.st, page |-> [upper.page EXCEPT !.cleared = upper.clear],
                  rerun |-> upper.clear]
            ELSE HistoryTab(upper.cache, upper.st, upper.page, ui, http, upper.prices))

\* After clear_caches() or a saved currency the script runs again (st.rerun)
\* with no button clicked.
Again(first, ui, outs, http) ==
    With(Pass([cache |-> first.cache, st |-> first.st],
              [ui EXCEPT !.click = "none"], outs, http),
         LAMBDA again :
            [cache |-> again.cache, st |-> again.st,
             page |-> [again.page EXCEPT !.saved = first.page.saved,
                                         !.cleared = first.page.cleared]])

\* main(): a pass, and a second one when the first asked for a rerun.
main(w, ui, outs, http) ==
    With(Pass(w, ui, outs, http),
         LAMBDA first :
            IF first.rerun THEN Again(first, ui, outs, http)
            ELSE [cache |-> first.cache, st |-> first.st, page |-> first.page])

(* --------------------------- the page: machine ------------------------- *)
(* A step is one interaction with the page, that is one whole run of       *)
(* main(), or the expiry of a cache entry.  `input` holds the text fields  *)
(* and the configuration of the session, `output` the page last rendered.  *)

\* Most calls (API calls of one run, upserts of one sync) that fail.
MaxFailures == 1

\* The sessions: the accounts typed in the sidebar, the account of the
\* history tab, whether Supabase is configured, and the rows the season
\* table holds at the start.
EarlierRow ==
    [season_id |-> VInt(Season.id - 1), username |-> VStr(<<"lorkus">>),
     scholar_payout |-> VInt(1), scholar_pct |-> VInt(50),
     ranked_tokens |-> VDict(<<<<"SPS", VInt(MaxAmount)>>>>), ranked_usd |-> VInt(MaxAmount)]

\* A row of the current season whose scholar payout was set by hand.
OverriddenRow ==
    [season_id |-> VInt(Season.id), username |-> VStr(<<"lorkus">>),
     scholar_payout |-> VInt(1), scholar_pct |-> VInt(50),
     payout_currency |-> VStr(<<"SPS">>),
     ranked_tokens |-> VDict(<<<<"SPS", VInt(MaxAmount)>>>>), ranked_usd |-> VInt(MaxAmount)]

Session(usernames, history_username, configured, rows) ==
    [input |-> [usernames |-> usernames, history_username |-> history_username,
                configured |-> configured, scholar_pct |-> 50, tour_user |-> "lorkus"],
     rows |-> rows]

Sessions ==
    {Session(<<"lorkus">>, "lorkus", TRUE, {EarlierRow}),
     Session(<<"lorkus">>, "lorkus", TRUE, {OverriddenRow}),
     Session(<<"vorkus", "lorkus">>, "lorkus", FALSE, {EarlierRow}),
     Session(<<"lorkus", "vorkus">>, "", FALSE, {})}

\* The values of the payout-currency select boxes of the summary tab.
PayoutChoices == {"SPS", "ETH"}
CurrencyChoices == {<<"SPS", "SPS">>, <<"ETH", "SPS">>}

\* The outcomes of the API calls a run may make.  An entry that is cached
\* is not fetched unless the run clears the caches, and a user who is not
\* listed is not fetched at all: their outcome is immaterial and fixed.
ApiOutcomes(c, cleared) ==
    LET Listed(u) == \E i \in DOMAIN input.usernames : input.usernames[i] = u
        Of(entry, values) ==
            IF entry.k = "hit" /\ ~cleared THEN {Returned(entry.v)}
            ELSE {Raised} \cup {Returned(v) : v \in values}
        Failed(o) ==
            Cardinality({f \in {"season", "prices"} : o[f].k = "raised"})
            + Cardinality({u \in Users : o.rewards[u].k = "raised"})
            + Cardinality({u \in Users : o.tournaments[u].k = "raised"})
        RewardsOf(u) ==
            IF ~Listed(u) THEN {Returned(UserRewards(u, 1))}
            ELSE Of(c.rewards[u], {UserRewards(u, MaxAmount)})
        TournamentsFor(u) ==
            IF ~Listed(u) THEN {Returned(UserTournaments(u))}
            ELSE Of(c.tournaments[u], {UserTournaments(u)})
    IN  {o \in {[season |-> s, prices |-> p, rewards |-> r, tournaments |-> t] :
                  s \in Of(c.season, {Season}), p \in Of(c.prices, {FetchedPrices}),
                  r \in {[u \in Users |-> IF u = "lorkus" THEN a ELSE b] :
                            a \in RewardsOf("lorkus"), b \in RewardsOf("vorkus")},
                  t \in {[u \in Users |-> IF u = "lorkus" THEN a ELSE b] :
                            a \in TournamentsFor("lorkus"), b \in TournamentsFor("vorkus")}} :
            Failed(o) <= MaxFailures}

\* Outcomes of the 2n upserts of a sync over n users.
SyncOutcomes(n) ==
    {h \in [1..(2 * n) -> HttpOutcomes] :
        Cardinality({i \in 1..(2 * n) : h[i] # "ok"}) <= MaxFailures}

\* The storage outcomes of a run: h for the upserts, get for the history
\* GET, patch for the currency PATCH.
Http(h, get, patch) ==
    [totals |-> [i \in 1..Len(input.usernames) |-> h[2 * i - 1]],
     logs |-> [i \in 1..Len(input.usernames) |-> h[2 * i]],
     get |-> get, patch |-> patch]

AllOk == [i \in 1..(2 * Len(input.usernames)) |-> "ok"]

\* The widget values of a run.
Ui(click, currency, selected_currency, idx) ==
    [usernames |-> input.usernames, scholar_pct |-> input.scholar_pct,
     tour_user |-> input.tour_user, history_username |-> input.history_username,
     configured |-> input.configured, click |-> click, currency |-> currency,
     selected_currency |-> selected_currency, idx |-> idx]

World == [cache |-> cache, st |-> [store |-> store, err |-> _last_error]]

\* The run of the script takes the process to `result`.
Ran(click, result) ==
    /\ cache' = result.cache
    /\ store' = result.st.store
    /\ _last_error' = result.st.err
    /\ output' = result.page
    /\ op' = click
    /\ UNCHANGED input

\* The select boxes keep their values between runs.
ShownCurrency ==
    IF output = NoOutput \/ output.currency = << >> THEN <<"SPS", "SPS">>
    ELSE output.currency

InitPage ==
    \E s \in Sessions :
        /\ op = "start"
        /\ input = s.input
        /\ output = NoOutput
        /\ cache = EmptyCache
        /\ store = [season_rewards |-> s.rows, tournament_logs |-> {}]
        /\ _last_error = "None"

\* The page is opened, or a widget is changed: the script runs with no
\* button clicked.
Rerun ==
    \E currency \in CurrencyChoices, get \in HttpOutcomes,
       outs \in ApiOutcomes(cache, FALSE) :
        \E result \in {main(World, Ui("none", currency, "SPS", 1), outs,
                            Http(AllOk, get, "ok"))} :
            Ran("view", result)

\* "Refresh now" (line 333).
RefreshNow ==
    /\ output # NoOutput /\ output.view # "base_failed"
    /\ \E outs \in ApiOutcomes(cache, TRUE) :
          \E result \in {main(World, Ui("refresh", ShownCurrency, "SPS", 1), outs,
                              Http(AllOk, "ok", "ok"))} :
              Ran("refresh", result)

\* "Reload tournaments" (line 481).
ReloadTournaments ==
    /\ output # NoOutput /\ output.view \notin {"base_failed", "no_data"}
    /\ \E outs \in ApiOutcomes(cache, TRUE) :
          \E result \in {main(World, Ui("reload", ShownCurrency, "SPS", 1), outs,
                              Http(AllOk, "ok", "ok"))} :
              Ran("reload", result)

\* "Sync season snapshot to Supabase" (line 455).
SyncSeasonSnapshot ==
    /\ output # NoOutput /\ output.view \notin {"base_failed", "no_data"}
    /\ input.configured
    /\ \E outs \in ApiOutcomes(cache, FALSE), h \in SyncOutcomes(Len(input.usernames)) :
          \E result \in {main(World, Ui("sync", ShownCurrency, "SPS", 1), outs,
                              Http(h, "ok", "ok"))} :
              Ran("sync", result)

\* "Save currency" on one of the first two history records (line 626).
SaveCurrency ==
    /\ output # NoOutput
    /\ \E idx \in 1..2, selected_currency \in PayoutChoices, patch \in HttpOutcomes,
          outs \in ApiOutcomes(cache, FALSE) :
          /\ idx <= Len(output.history)
          /\ \E result \in {main(World, Ui("save", ShownCurrency, selected_currency, idx),
                                  outs, Http(AllOk, "ok", patch))} :
                 Ran("save", result)

\* ttl=300: the page is left alone for five minutes and every entry
\* expires.
Expire ==
    /\ cache # EmptyCache
    /\ cache' = EmptyCache
    /\ op' = "expire"
    /\ UNCHANGED <<input, output, store, _last_error>>

NextPage ==
    Rerun \/ RefreshNow \/ ReloadTournaments \/ SyncSeasonSnapshot \/ SaveCurrency \/ Expire

SpecPage == InitPage /\ [][NextPage]_vars

(* -------------------------------- C16 ---------------------------------- *)

\* The fetch loop has run in the run that rendered the page, and the caches
\* are as that run left them.
LoopRan ==
    /\ op \notin {"start", "expire"}
    /\ output.view \in {"no_data", "summary", "tournaments_failed", "no_tournaments",
                        "exception"}

\* Both fetches of the user succeeded: both values are in the cache (a
\* fetch that raises caches nothing).
BothFetched(u) == cache.rewards[u].k = "hit" /\ cache.tournaments[u].k = "hit"

\* The rewards fetch of the user succeeded and their tournaments fetch raised.
PairBroken(u) == cache.rewards[u].k = "hit" /\ cache.tournaments[u].k = "miss"

RECURSIVE RecordsOf(_, _, _)
RecordsOf(kind, users, i) ==
    IF i > Len(users) THEN << >>
    ELSE cache[kind][users[i]].v \o RecordsOf(kind, users, i + 1)

FailedWrites == {i \in DOMAIN output.issued : output.issued[i].outcome # "ok"}

\* C17: persistence failures are never silently swallowed.  After a "Sync
\* season snapshot" run in which an upsert failed (the request raised, or the
\* response had a status of 300 or above), "Synced to Supabase." is not shown
\* and a failure is reported.
C17_FailureIsReported ==
    (op = "sync" /\ FailedWrites # {}) =>
        /\ "Synced to Supabase." \notin output.messages
        /\ \E u \in Users : ("Failed to sync " \o u) \in output.messages

\* What the code does guarantee: an upsert whose request raised is reported
\* and ends the batch without the success message.
C17_RaisedIsReported ==
    (op = "sync" /\ \E i \in FailedWrites : output.issued[i].outcome = "raised") =>
        /\ "Synced to Supabase." \notin output.messages
        /\ \E u \in Users : ("Failed to sync " \o u) \in output.messages

(* ------------------------ storage: the machine ------------------------- *)
(* A step is one call of a storage entry point, with arguments, presence   *)
(* of credentials and HTTP outcome of any choice; `input` holds the call   *)
(* and `output` what it returned.                                          *)

St == [store |-> store, err |-> _last_error]

SeasonIds == {Season.id - 1, Season.id}

\* The totals of a user as the summary computes them.
TotalsOf(username) ==
    aggregate_totals(Season, UserRewards(username, MaxAmount), UserTournaments(username),
                     FetchedPrices)

Called(name, args, r) ==
    /\ op' = name
    /\ input' = args
    /\ output' = r.result
    /\ store' = r.st.store
    /\ _last_error' = r.st.err
    /\ UNCHANGED cache

InitStore ==
    /\ op = "start"
    /\ input = [configured |-> TRUE]
    /\ output = NoOutput
    /\ cache = EmptyCache
    /\ store \in {[season_rewards |-> rows, tournament_logs |-> {}] :
                    rows \in {{}, {EarlierRow}}}
    /\ _last_error = "None"

CallGetSupabaseClient ==
    \E configured \in BOOLEAN :
        LET r == get_supabase_client(configured, St)
        IN  Called("get_supabase_client", [configured |-> configured],
                   [result |-> IF r.creds THEN Returned(TRUE) ELSE ReturnedNone, st |-> r.st])

CallUpsertSeasonTotals ==
    \E configured \in BOOLEAN, username \in Users, currency \in PayoutChoices,
       outcome \in HttpOutcomes :
        Called("upsert_season_totals",
               [configured |-> configured, username |-> username, season_id |-> Season.id,
                currency |-> currency, outcome |-> outcome],
               upsert_season_totals(configured, St, Season, username, TotalsOf(username),
                                    50, currency, outcome))

CallUpsertTournamentLogs ==
    \E configured \in BOOLEAN, username \in Users, outcome \in HttpOutcomes :
      \E tournaments \in {<< >>, UserTournaments(username)} :
        Called("upsert_tournament_logs",
               [configured |-> configured, username |-> username,
                posted |-> Len(tournaments), outcome |-> outcome],
               upsert_tournament_logs(configured, St, tournaments, username, outcome))

CallFetchSeasonHistory ==
    \E configured \in BOOLEAN, username \in Users, outcome \in HttpOutcomes :
        LET r == fetch_season_history(configured, St, username, outcome)
        IN  Called("fetch_season_history",
                   [configured |-> configured, username |-> username, outcome |-> outcome],
                   r)

CallUpdateSeasonCurrency ==
    \E configured \in BOOLEAN, username \in Users, season_id \in SeasonIds,
       currency \in PayoutChoices, outcome \in HttpOutcomes :
        Called("update_season_currency",
               [configured |-> configured, username |-> username, season_id |-> season_id,
                currency |-> currency, outcome |-> outcome],
               update_season_currency(configured, St, username, season_id, currency,
                                      outcome))

NextStore ==
    \/ CallGetSupabaseClient
    \/ CallUpsertSeasonTotals
    \/ CallUpsertTournamentLogs
    \/ CallFetchSeasonHistory
    \/ CallUpdateSeasonCurrency

SpecStore == InitStore /\ [][NextStore]_vars

(* -------------------------------- C18 ---------------------------------- *)

\* The keys of the rows of the season table.
SeasonKeys(rows) == {<<r.username, r.season_id>> : r \in rows}

\* The row is one the last update_season_currency call addresses.
Addressed(r) ==
    r.username = VStr(<<input.username>>) /\ r.season_id = VInt(input.season_id)

\* Row `after` is row `before` with at most its payout_currency changed.
SameButCurrency(before, after) ==
    /\ DOMAIN after = DOMAIN before \cup {"payout_currency"}
    /\ \A f \in DOMAIN before \ {"payout_currency"} : after[f] = before[f]

\* The last step was an update_season_currency call that was applied.
Applied == input.configured /\ input.outcome = "ok"

\* C18, as a step property: an update_season_currency call takes every row
\* of the season table to one row of the same key; a row it does not address
\* is unchanged, a row it addresses changes in payout_currency only, and
\* only when credentials are present and the status is below 300, in which
\* case True is returned and the row holds the given currency; without
\* credentials or with a status of 300 or above False is returned and the
\* table is unchanged; the tournament log is never touched.  No storage
\* call of any kind removes a row of the season table.
C18_Step ==
    /\ SeasonKeys(store.season_rewards) \subseteq SeasonKeys(store'.season_rewards)
    /\ op' = "update_season_currency" =>
          /\ Cardinality(store'.season_rewards) = Cardinality(store.season_rewards)
          /\ SeasonKeys(store'.season_rewards) = SeasonKeys(store.season_rewards)
          /\ store'.tournament_logs = store.tournament_logs
          /\ \A r \in store.season_rewards :
                \E q \in store'.season_rewards :
                   /\ q.username = r.username /\ q.season_id = r.season_id
                   /\ IF Addressed(r)' /\ Applied'
                      THEN SameButCurrency(r, q)
                           /\ q.payout_currency = VStr(<<input'.currency>>)
                      ELSE q = r
          /\ (Applied' <=> output' = Returned(TRUE))
          /\ ((~input'.configured \/ input'.outcome = "rejected")
                 <=> output' = Returned(FALSE))
          /\ (output'.k = "raised" <=> (input'.configured /\ input'.outcome = "raised"))

C18_NarrowUpdate == [][C18_Step]_vars

\* An update that returned True after changing the currency of one of two
\* rows of the same user, the other row keeping a different currency.
C18_Witness ==
    /\ op = "update_season_currency"
    /\ output = Returned(TRUE)
    /\ \E r \in store.season_rewards, q \in store.season_rewards :
          /\ Addressed(r) /\ r.username = q.username /\ r.season_id # q.season_id
          /\ "scholar_payout" \in DOMAIN q \/ "scholar_payout" \in DOMAIN r
          /\ r.payout_currency = VStr(<<"ETH">>)
          /\ RecGet(q, "payout_currency") # VStr(<<"ETH">>)

\* An update that returned False and left the table as it was.
C18_WitnessRefused ==
    /\ op = "update_season_currency"
    /\ output = Returned(FALSE)
    /\ \E r \in store.season_rewards : Addressed(r)

(* -------------------------------- C19 ---------------------------------- *)

\* The run that rendered the page reached the summary tables.
SummaryShown == LoopRan /\ output.view # "no_data"

\* The users the summary aggregated, as the caches tell.
Aggregated == SelectSeq(input.usernames, BothFetched)

\* The aggregate of one user's fetched records.
LiveTotals(u) ==
    aggregate_totals(Season, cache.rewards[u].v, cache.tournaments[u].v, cache.prices.v)

\* C19: the live aggregation does not depend on the snapshot store.  In
\* every session (Supabase configured or not, whatever rows the store holds,
\* whatever the outcome of earlier syncs and currency updates) the per-user
\* totals, the combined totals and the payout displays of the summary are
\* the same function of the fetched season, prices, rewards and tournaments,
\* the scholar percentage and the selected currencies; two runs that agree
\* on those show the same summary.
C19_LiveAggregation ==
    SummaryShown =>
        /\ output.per_user_totals
              = [i \in DOMAIN Aggregated |->
                    [username |-> Aggregated[i], totals |-> LiveTotals(Aggregated[i])]]
        /\ output.totals
              = aggregate_totals(Season, RecordsOf("rewards", Aggregated, 1),
                                 RecordsOf("tournaments", Aggregated, 1), cache.prices.v)
        /\ output.payouts
              = [i \in DOMAIN Aggregated |->
                    _format_scholar_payout(output.currency[i], LiveTotals(Aggregated[i]),
                                           input.scholar_pct, cache.prices.v, Null)]

\* A summary shown in one currency while the store holds this season's
\* snapshot of the same user with another payout currency.
C19_Witness ==
    /\ SummaryShown
    /\ \E i \in DOMAIN output.per_user_totals :
          \E r \in store.season_rewards :
             /\ r.username = VStr(<<output.per_user_totals[i].username>>)
             /\ r.season_id = VInt(Season.id)
             /\ r.payout_currency # VStr(<<output.currency[i]>>)

\* A summary shown without Supabase being configured.
C19_WitnessUnconfigured == SummaryShown /\ ~input.configured /\ output.payouts # << >>

(* -------------------------------- C20 ---------------------------------- *)

\* The entries of the four fetch caches.
Entries ==
    {<<"season", "">>, <<"prices", "">>}
    \cup {<<f, u>> : f \in {"rewards", "tournaments"}, u \in Users}

EntryOf(c, e) == IF e[1] \in {"season", "prices"} THEN c[e[1]] ELSE c[e[1]][e[2]]

\* The entries that hold a value.
Cached(c) == {e \in Entries : EntryOf(c, e).k = "hit"}

\* The step keeps every cached value and serves it without an API call.
CacheKept ==
    \A e \in Cached(cache) : EntryOf(cache', e) = EntryOf(cache, e) /\ e \notin output'.calls

\* C20, as a step property: a run clears the caches only when "Refresh now"
\* or "Reload tournaments" was clicked, and then all four are cleared
\* together (every value cached after such a run was fetched anew in it); a
\* plain run, a snapshot sync and a currency update leave every cached entry
\* as it was and serve it; apart from that an entry goes only by expiry.
C20_Step ==
    /\ op' \in {"view", "sync", "save"} => ~output'.cleared /\ CacheKept
    /\ op' \in {"refresh", "reload"} =>
          IF output'.cleared THEN Cached(cache') \subseteq output'.calls ELSE CacheKept

C20_ExplicitInvalidation == [][C20_Step]_vars

\* A refresh after a sync wrote this season's snapshot: everything shown
\* was fetched anew.
C20_Witness ==
    /\ op = "refresh"
    /\ output.cleared
    /\ \E r \in store.season_rewards : r.season_id = VInt(Season.id)
    /\ Cardinality(output.calls) >= 4

\* A sync that wrote a snapshot while every value was served from the cache.
C20_WitnessSync ==
    /\ op = "sync"
    /\ "Synced to Supabase." \in output.messages
    /\ \E r \in store.season_rewards : r.season_id = VInt(Season.id)
    /\ output.calls = {}
    /\ Cardinality(Cached(cache)) >= 4

(* -------------------------------- C21 ---------------------------------- *)

\* The rows of the season table that carry a scholar payout, by key.
Overrides(rows) ==
    {<<r.username, r.season_id, r.scholar_payout>> :
        r \in {q \in rows : "scholar_payout" \in DOMAIN q}}

\* The stored row a row of the history table was built from.
StoredRowOf(shown) ==
    CHOOSE r \in store.season_rewards :
        r.username = VStr(<<input.history_username>>) /\ r.season_id = shown.season_id

\* The payout display of an explicit payout of v SPS in the given currency.
OverrideDisplay(v, currency) ==
    PayoutText(Upper(currency), FMul(v, Hundred),
               FMul(FMul(v, Hundred), PriceOf(cache.prices.v, "SPS", "sps")),
               PriceOf(cache.prices.v, Upper(currency), Lower(Upper(currency))))

\* The history table of the page shows the store as it is.
HistoryShown == op \notin {"start", "expire"} /\ output.history # << >>

\* The history table shows every row that carries a scholar payout with
\* that payout, in the row's currency, and not with the computed share.
OverrideShown ==
    HistoryShown =>
        \A i \in DOMAIN output.history :
            LET r == StoredRowOf(output.history[i])
            IN  "scholar_payout" \in DOMAIN r =>
                    output.history[i].payout
                        = OverrideDisplay(r.scholar_payout.v, RecordPayoutCurrency(r))

\* C21, as a step property: no run of the page (sync, currency update or
\* other) writes scholar_payout: the rows that carry one, and its value in
\* each, are the same after the step as before; and after the step the
\* history table shows such a row with the stored payout as the override.
C21_Step ==
    /\ Overrides(store'.season_rewards) = Overrides(store.season_rewards)
    /\ OverrideShown'

C21_OverrideAuthoritative == [][C21_Step]_vars

\* The snapshot of the current season carries a hand-set payout, a sync has
\* rewritten its totals and a currency update its currency, and the history
\* shows the row.
C21_Witness ==
    /\ HistoryShown
    /\ \E r \in store.season_rewards :
          /\ r.season_id = VInt(Season.id)
          /\ "scholar_payout" \in DOMAIN r
          /\ "overall_usd" \in DOMAIN r
          /\ r.payout_currency = VStr(<<"ETH">>)
          /\ op = "save"

(* -------------------------------- C22 ---------------------------------- *)

\* The token maps of an aggregate: the four categories and overall.
TokenMaps(totals) == {totals[c].token_amounts : c \in Categories \cup {"overall"}}

\* The float sum of one token's amounts in category order, a category
\* without the token counting 0.
CategorySum(totals, k) == FAdd(FAdd(FAdd(DictGet(totals.ranked.token_amounts, k, 0), DictGet(totals.brawl.token_amounts, k, 0)), DictGet(totals.tournament.token_amounts, k, 0)), DictGet(totals.entry_fees.token_amounts, k, 0))

CategoryKeys(totals) == UNION {DictKeys(totals[c].token_amounts) : c \in Categories}

\* C22: in every aggregate _aggregated_totals_from_record returns, every key
\* of every token map (the four categories and overall) is uppercase and
\* occurs once, the keys of overall are the union of the keys of the four
\* categories, and each overall amount is the sum, in category order, of
\* that token's amounts in ranked, brawl, tournament and entry_fees: entry
\* fees are added, so overall is never below the entry fees of the token.
C22_OverallIsUnionSum ==
    op = "reconstructed" =>
        /\ \A d \in TokenMaps(output.totals) :
             /\ \A k \in DictKeys(d) : Upper(k) = k
             /\ \A i, j \in DOMAIN d : d[i][1] = d[j][1] => i = j
        /\ DictKeys(output.totals.overall.token_amounts) = CategoryKeys(output.totals)
        /\ \A k \in CategoryKeys(output.totals) :
             /\ DictGet(output.totals.overall.token_amounts, k, 0) = CategorySum(output.totals, k)
             /\ DictGet(output.totals.overall.token_amounts, k, 0) >= DictGet(output.totals.entry_fees.token_amounts, k, 0)

\* A row whose ranked map holds SPS and DEC under mixed-case keys and whose
\* entry fees hold SPS: overall SPS is above either category's amount.
C22_Witness ==
    /\ op = "reconstructed"
    /\ DictKeys(output.totals.ranked.token_amounts) = {"SPS", "DEC"}
    /\ DictGet(output.totals.entry_fees.token_amounts, "SPS", 0) > 0
    /\ DictGet(output.totals.overall.token_amounts, "SPS", 0) > DictGet(output.totals.ranked.token_amounts, "SPS", 0)
    /\ DictGet(output.totals.overall.token_amounts, "SPS", 0) > DictGet(output.totals.entry_fees.token_amounts, "SPS", 0)

(* -------------------------------- C23 ---------------------------------- *)

\* The entries of mapping d from i on that carry a numeric amount, each
\* under its stored key with the amount as a float.
RECURSIVE NumericPart(_, _)
NumericPart(d, i) ==
    IF i > Len(d) THEN << >>
    ELSE IF Coercions(d[i][2]) = {} THEN NumericPart(d, i + 1)
    ELSE <<<<d[i][1], CHOOSE x \in Coercions(d[i][2]) : TRUE>>>> \o NumericPart(d, i + 1)

\* Two keys of mapping d that differ only in letter case, both numeric.
CaseVariants(d) == \E i, j \in DOMAIN d : d[i][1] # d[j][1] /\ Upper(d[i][1]) = Upper(d[j][1]) /\ Coercions(d[i][2]) # {} /\ Coercions(d[j][2]) # {}

\* C23: a reconstructed category maps each uppercase token to the summed
\* amount of that token: the keys of a stored mapping that differ only in
\* letter case come out of _parse_token_amounts as one uppercase key whose
\* amount is the sum of their amounts, which is what _merge_token_amounts
\* gives for the same entries.
C23_CaseVariantsSummed ==
    op = "reconstructed" =>
        \A c \in Categories :
            \A d \in MappingOf(RecGet(output.record, c \o "_tokens")) :
                AsMap(output.totals[c].token_amounts) = AsMap(_merge_token_amounts(<<NumericPart(d, 1)>>))

\* What the code does with such keys: the amount of the last one stands.
C23_LastVariantStands ==
    op = "reconstructed" =>
        \A c \in Categories :
            \A d \in MappingOf(RecGet(output.record, c \o "_tokens")) :
                AsMap(output.totals[c].token_amounts) = AsMap(MergePart_overwrite(NumericPart(d, 1), 1, EmptyDict))

C23_WitnessVariants ==
    /\ op = "reconstructed"
    /\ \E d \in MappingOf(RecGet(output.record, "ranked_tokens")) : CaseVariants(d)
    /\ DictGet(output.totals.ranked.token_amounts, "SPS", 0) = MaxAmount

(* -------------------------------- C24 ---------------------------------- *)

\* The last storage call sent an HTTP request: every entry point with
\* credentials does, except get_supabase_client itself and a tournament-log
\* upsert with no rows.
Requested ==
    /\ input.configured
    /\ op \in {"upsert_season_totals", "fetch_season_history", "update_season_currency"}
       \/ (op = "upsert_tournament_logs" /\ input.posted > 0)

\* The last storage call found no credentials, or its request came back with
\* a status of 300 or above.
LastCallFailed == op # "start" /\ (~input.configured \/ (Requested /\ input.outcome = "rejected"))

\* C24: after any sequence of storage calls the error slot is non-null
\* exactly when the last call found no credentials or its own request
\* returned a status of 300 or above; whatever an earlier call recorded is
\* erased by the next call that finds credentials.
C24_ErrorOfLastCall == (_last_error # "None") <=> LastCallFailed

\* A tournament-log upsert that succeeded for a user whose season row never
\* reached the table: the slot is null after it.
C24_Witness ==
    /\ op = "upsert_tournament_logs" /\ Requested /\ input.outcome = "ok"
    /\ \E r \in store.tournament_logs : r.username = VStr(<<input.username>>)
    /\ \A r \in store.season_rewards : r.username # VStr(<<input.username>>)
    /\ _last_error = "None"

\* A rejected request leaves its message in the slot.
C24_WitnessRejected ==
    /\ op = "fetch_season_history" /\ Requested /\ input.outcome = "rejected"
    /\ _last_error = "Supabase fetch failed"

(* -------------------------------- C25 ---------------------------------- *)

\* The stored payout currencies, by (username, season).
Currencies(rows) == {<<r.username, r.season_id, RecGet(r, "payout_currency")>> : r \in rows}

\* The step is a snapshot sync or a currency update that was applied.
Wrote == op' \in {"upsert_season_totals", "update_season_currency"} /\ input'.configured /\ input'.outcome = "ok"

WrittenKey == <<VStr(<<input'.username>>), VInt(input'.season_id)>>

\* C25, as a step property: the season table holds at most one row per
\* (username, season); a sync or a currency update that succeeds leaves the
\* row of its key, if there is one, with the currency it was given (a sync
\* always leaves such a row, so a sync after an update replaces the updated
\* currency), and every other row, and every row in a step that is not a
\* successful write, keeps its currency.
C25_Step ==
    /\ Cardinality(SeasonKeys(store'.season_rewards)) = Cardinality(store'.season_rewards)
    /\ \A r \in store'.season_rewards :
          IF Wrote /\ <<r.username, r.season_id>> = WrittenKey
          THEN RecGet(r, "payout_currency") = VStr(<<input'.currency>>)
          ELSE <<r.username, r.season_id, RecGet(r, "payout_currency")>> \in Currencies(store.season_rewards)
    /\ (Wrote /\ op' = "upsert_season_totals") => WrittenKey \in SeasonKeys(store'.season_rewards)

C25_LastWriterWins == [][C25_Step]_vars

\* A sync that was applied while another user's row of the same season
\* holds a different currency, one that only a currency update can have left
\* beside it or that an earlier sync wrote.
C25_Witness ==
    /\ op = "upsert_season_totals" /\ input.configured /\ input.outcome = "ok"
    /\ \E r \in store.season_rewards, q \in store.season_rewards :
          /\ Addressed(r) /\ r.payout_currency = VStr(<<input.currency>>)
          /\ q.season_id = r.season_id /\ q.username # r.username
          /\ q.payout_currency # r.payout_currency

\* A currency update that changed a row a sync had written: the row holds
\* the synced figures and the updated currency.
C25_WitnessUpdate ==
    /\ op = "update_season_currency" /\ output = Returned(TRUE)
    /\ \E r \in store.season_rewards :
          /\ Addressed(r) /\ "overall_usd" \in DOMAIN r /\ r.season_id = VInt(Season.id)
          /\ r.payout_currency = VStr(<<input.currency>>)

(* ------------------------- currency options --------------------------- *)

\* The symbols of the model in the order Python compares strings (by code
\* point: upper case before lower case).
CodePointOrder ==
    <<"ALICE", "BOB", "BTC", "CREDITS", "DEC", "ETH", "GLX", "HIVE", "SPS", "USD", "VOUCHER",
      "alice", "bob", "credits", "glx", "sps">>

\* sorted(symbols) for a set of symbols.
Sorted(symbols) == SelectSeq(CodePointOrder, LAMBDA token : token \in symbols)

base_order == <<"SPS", "USD", "ETH", "HIVE", "BTC", "DEC", "VOUCHER">>

Elements(seq) == {seq[i] : i \in DOMAIN seq}

\* Mutant: the tokens of the aggregates are added as they are spelled.
RECURSIVE CurrenciesOf_raw_keys(_, _, _)
CurrenciesOf_raw_keys(per_user_totals, i, currencies) ==
    IF i > Len(per_user_totals) THEN currencies
    ELSE CurrenciesOf_raw_keys(per_user_totals, i + 1, currencies \cup DictKeys(per_user_totals[i][2].overall.token_amounts))

\* Lines 94-96: currencies.update(token.upper() ...) over the aggregates
\* (the keys of a token map are strings).
RECURSIVE CurrenciesOf(_, _, _)
CurrenciesOf(per_user_totals, i, currencies) ==
    IF i > Len(per_user_totals) THEN currencies
    ELSE CurrenciesOf(per_user_totals, i + 1, currencies \cup {Upper(token) : token \in DictKeys(per_user_totals[i][2].overall.token_amounts)})

_build_currency_options(per_user_totals) ==
    LET currencies == CurrenciesOf(per_user_totals, 1, Elements(base_order))
        extras == SelectSeq(Sorted(currencies), LAMBDA token : token \notin Elements(base_order))
        ordered == SelectSeq(base_order, LAMBDA token : token \in currencies)
    IN  ordered \o extras

\* str(value) for the values a payout_currency column holds.
StrOf(value) ==
    CASE value.t = "str" -> IF value.s = << >> THEN "" ELSE value.s[1]
      [] value.t = "int" -> ToString(value.v)
      [] OTHER -> "None"

\* Lines 614-615: the currency the history tab preselects for a record.
DefaultCurrency(record, history_currency_options) ==
    LET stored_currency == IF Truthy(RecGet(record, "payout_currency")) THEN StrOf(RecGet(record, "payout_currency")) ELSE "SPS"
    IN  IF stored_currency \in Elements(history_currency_options) THEN stored_currency
        ELSE history_currency_options[1]

(* -------------------- currency options: the machine -------------------- *)

\* An aggregate whose overall token map is d.
WithOverall(d) == AggregatedTotals(CategoryTotals(d, 0), CategoryTotals(EmptyDict, 0), CategoryTotals(EmptyDict, 0), CategoryTotals(EmptyDict, 0), CategoryTotals(d, 0))

\* Lists of up to two aggregates whose tokens meet in every letter case.
OptionInputs ==
    {<< >>}
    \cup {<<<<"lorkus", WithOverall(a)>>>> : a \in DictsOver({"sps", "glx", "CREDITS"}, {1})}
    \cup {<<<<"lorkus", WithOverall(a)>>, <<"vorkus", WithOverall(b)>>>> :
            a \in DictsOver({"sps", "glx", "CREDITS"}, {1}), b \in DictsOver({"GLX", "credits"}, {1})}

\* Records as the history tab finds them: no currency, an empty one, a
\* listed one, one in another letter case, an unlisted one, a number.
OptionRecords ==
    {[season_id |-> VInt(Season.id)]}
    \cup {[season_id |-> VInt(Season.id), payout_currency |-> c] :
            c \in {Null, VStr(<< >>), VStr(<<"ETH">>), VStr(<<"eth">>), VStr(<<"GLX">>), VStr(<<"BOB">>), VInt(1)}}

InitOptions ==
    /\ op = "start"
    /\ input \in {[per_user_totals |-> p, record |-> r] : p \in OptionInputs, r \in OptionRecords}
    /\ output = NoOutput
    /\ NoSession

\* The history tab building its options and the preselection of a record.
BuildCurrencyOptions ==
    /\ op = "start"
    /\ \E options \in {_build_currency_options(input.per_user_totals)} :
         output' = [k |-> "options", options |-> options, default_currency |-> DefaultCurrency(input.record, options)]
    /\ op' = "options"
    /\ UNCHANGED <<input, cache, store, _last_error>>

NextOptions == BuildCurrencyOptions

SpecOptions == InitOptions /\ [][NextOptions]_vars

(* -------------------------------- C26 ---------------------------------- *)

\* Position of a symbol in code-point order.
Rank(token) == CHOOSE i \in DOMAIN CodePointOrder : CodePointOrder[i] = token

\* The uppercased symbols of the aggregates' overall maps that are not base
\* currencies.
OtherTokens == {Upper(token) : token \in UNION {DictKeys(input.per_user_totals[i][2].overall.token_amounts) : i \in DOMAIN input.per_user_totals}} \ Elements(base_order)

\* C26: the options are a list without duplicates that starts with SPS,
\* USD, ETH, HIVE, BTC, DEC, VOUCHER in that order and goes on with the
\* uppercased symbols of all other tokens of the overall maps in sorted
\* order; so it is not empty, its first entry is SPS, and the currency the
\* history tab preselects is one of its entries.
C26_CurrencyOptions ==
    op = "options" =>
        LET options == output.options
        IN  /\ \A i, j \in DOMAIN options : options[i] = options[j] => i = j
            /\ Len(options) >= Len(base_order)
            /\ SubSeq(options, 1, Len(base_order)) = base_order
            /\ {options[i] : i \in Len(base_order) + 1 .. Len(options)} = OtherTokens
            /\ \A i, j \in Len(base_order) + 1 .. Len(options) : i < j => Rank(options[i]) < Rank(options[j])
            /\ options # << >> /\ options[1] = "SPS"
            /\ output.default_currency \in Elements(options)

\* Two aggregates holding glx, GLX, credits and CREDITS give the two extras
\* once each, in order, and a stored currency in another letter case is
\* replaced by the first option.
C26_Witness ==
    /\ op = "options"
    /\ Len(input.per_user_totals) = 2
    /\ output.options = base_order \o <<"CREDITS", "GLX">>
    /\ RecGet(input.record, "payout_currency") = VStr(<<"eth">>)
    /\ output.default_currency = "SPS"

\* A stored currency among the extras is preselected.
C26_WitnessStored == op = "options" /\ output.default_currency = "GLX"

(* ---------------------------- parse_usernames -------------------------- *)

\* The text of the usernames box is a sequence of lexemes: names, commas
\* and blanks.
Blank == " "

\* raw.split(","): the pieces between the commas, empty ones included.
RECURSIVE Split(_, _, _)
Split(raw, i, piece) ==
    IF i > Len(raw) THEN <<piece>>
    ELSE IF raw[i] = "," THEN <<piece>> \o Split(raw, i + 1, << >>)
    ELSE Split(raw, i + 1, Append(piece, raw[i]))

\* name.strip(): the piece without its leading and trailing blanks.
RECURSIVE Strip(_)
Strip(piece) ==
    IF piece = << >> THEN << >>
    ELSE IF Head(piece) = Blank THEN Strip(Tail(piece))
    ELSE IF piece[Len(piece)] = Blank THEN Strip(SubSeq(piece, 1, Len(piece) - 1))
    ELSE piece

\* Mutant: a name is listed once, where it first occurs.
parse_usernames_unique(raw) ==
    LET pieces == Split(raw, 1, << >>)
        stripped == [i \in DOMAIN pieces |-> Strip(pieces[i])]
        kept == {i \in DOMAIN stripped : stripped[i] # << >> /\ \A j \in 1..(i - 1) : stripped[j] # stripped[i]}
        RECURSIVE From(_)
        From(i) == IF i > Len(stripped) THEN << >> ELSE (IF i \in kept THEN <<stripped[i]>> ELSE << >>) \o From(i + 1)
    IN  From(1)

\* Lines 58-59: [name.strip() for name in raw.split(",") if name.strip()].
parse_usernames(raw) ==
    LET pieces == Split(raw, 1, << >>)
        stripped == [i \in DOMAIN pieces |-> Strip(pieces[i])]
    IN  SelectSeq(stripped, LAMBDA name : name # << >>)

(* ------------------- the usernames box: the machine -------------------- *)

MaxRaw == 5

RawLexemes == Users \cup {",", Blank}

\* The texts of up to MaxRaw lexemes whose every name is that of one user.
RawTexts ==
    {raw \in UNION {[1..n -> RawLexemes] : n \in 0..MaxRaw} :
        \A i \in DOMAIN parse_usernames(raw) : Len(parse_usernames(raw)[i]) = 1}

\* What the rewards and tournaments APIs answer for each user in one run,
\* at most MaxFailures of the calls raising.
UserOutcomes ==
    {o \in {[rewards |-> r, tournaments |-> t] :
              r \in [Users -> {Raised} \cup {Returned(UserRewards(u, MaxAmount)) : u \in Users}],
              t \in [Users -> {Raised} \cup {Returned(UserTournaments(u)) : u \in Users}]} :
        /\ \A u \in Users : o.rewards[u] \in {Raised, Returned(UserRewards(u, MaxAmount))}
        /\ \A u \in Users : o.tournaments[u] \in {Raised, Returned(UserTournaments(u))}
        /\ Cardinality({u \in Users : o.rewards[u] = Raised}) + Cardinality({u \in Users : o.tournaments[u] = Raised}) <= MaxFailures}

InitUsernames ==
    /\ op = "start"
    /\ input \in {[raw |-> raw] : raw \in RawTexts}
    /\ output = NoOutput
    /\ NoSession

\* Lines 339-372 with the base data loaded: the box is parsed, every listed
\* name is fetched and aggregated, and the combined totals are computed
\* unless no record was found.
FetchListed ==
    /\ op = "start"
    /\ \E outs \in UserOutcomes :
         \E names \in {parse_usernames(input.raw)} :
           \E loop \in {FetchLoop([i \in DOMAIN names |-> names[i][1]], 1, outs, FetchedPrices, LoopStart(EmptyCache))} :
              /\ output' = [k |-> "listed", usernames |-> names,
                            per_user_totals |-> loop.per_user_totals,
                            reward_rows |-> loop.reward_rows,
                            tournament_rows |-> loop.tournament_rows,
                            warnings |-> loop.warnings,
                            totals |-> IF loop.reward_rows = << >> /\ loop.tournament_rows = << >> THEN Null
                                       ELSE aggregate_totals(Season, loop.reward_rows, loop.tournament_rows, FetchedPrices)]
              /\ cache' = loop.cache
    /\ op' = "listed"
    /\ UNCHANGED <<input, store, _last_error>>

NextUsernames == FetchListed

SpecUsernames == InitUsernames /\ [][NextUsernames]_vars

(* -------------------------------- C27 ---------------------------------- *)

\* How often x occurs in seq.
Occurrences(seq, x) == Cardinality({i \in DOMAIN seq : seq[i] = x})

\* The float sum of the overall amounts of a token over per-user aggregates.
RECURSIVE OverallOf(_, _, _)
OverallOf(per_user_totals, i, token) ==
    IF i = 0 THEN 0
    ELSE FAdd(OverallOf(per_user_totals, i - 1, token), DictGet(per_user_totals[i].totals.overall.token_amounts, token, 0))

C27_WitnessEmpties ==
    /\ op = "listed"
    /\ input.raw = <<",", Blank, "lorkus", ",", ",">>
    /\ output.usernames = <<<<"lorkus">>>>

(* ------------------- tournament series leaderboard -------------------- *)

\* Mutant: only numbers convert, text does not.
_as_float_numbers_only(value) ==
    IF value.t \in {"float", "int", "bool"} THEN Ok(FloatOf(value)) ELSE Fail

\* Lines 52-56: float(value), or None when that raises.
_as_float(value) ==
    IF value.t \in {"float", "int", "bool"} THEN Ok(FloatOf(value))
    ELSE IF value.t = "str" THEN ParseFloat(value.s)
    ELSE Fail

\* Lines 199-203.
PointsKey(scheme) ==
    CASE scheme = "performance" -> "points_performance"
      [] scheme = "participation" -> "points_participation"
      [] OTHER -> "points_balanced"

\* Line 218: str(row.get("player") or "").strip().
PlayerOf(row) ==
    IF Truthy(RecGet(row, "player")) THEN Strip(RecGet(row, "player").s) ELSE << >>

\* Mutant: every finish of 1 or more is a podium.
IsPodium_no_upper_limit(finish) == finish.t \in {"int", "float", "bool"} /\ 1 <= FloatOf(finish)

\* Line 231.
IsPodium(finish) ==
    finish.t \in {"int", "float", "bool"} /\ 1 <= FloatOf(finish) /\ FloatOf(finish) <= 3

\* Lines 217-232: the rows folded into totals_map, a dict in insertion order.
RECURSIVE TotalsMap(_, _, _, _)
TotalsMap(result_rows, i, points_key, totals_map) ==
    IF i > Len(result_rows) THEN totals_map
    ELSE LET row == result_rows[i]
             player == PlayerOf(row)
             converted == _as_float(RecGet(row, points_key))
             pts == IF converted.ok /\ converted.v # 0 THEN converted.v ELSE 0
             finish == RecGet(row, "finish")
             agg == DictGet(totals_map, player, [points |-> 0, events |-> 0, finishes |-> << >>, podiums |-> 0])
             counted == [agg EXCEPT !.points = FAdd(@, pts), !.events = @ + 1]
             next == IF finish = Null THEN counted
                     ELSE [counted EXCEPT !.finishes = Append(@, FloatOf(finish)),
                                          !.podiums = IF IsPodium(finish) THEN @ + 1 ELSE @]
         IN  IF player = << >> THEN TotalsMap(result_rows, i + 1, points_key, totals_map)
             ELSE TotalsMap(result_rows, i + 1, points_key, DictSet(totals_map, player, next))

RECURSIVE SumOf(_, _)
SumOf(finishes, n) == IF n = 0 THEN 0 ELSE SumOf(finishes, n - 1) + finishes[n]

\* Lines 235-248: one leaderboard row per player; Avg Finish is kept as the
\* sum and the number of the finishes it divides.
TotalRow(player, agg) ==
    [Player |-> player, Points |-> agg.points, Events |-> agg.events,
     AvgFinish |-> IF agg.finishes = << >> THEN Null ELSE [t |-> "ratio", sum |-> SumOf(agg.finishes, Len(agg.finishes)), count |-> Len(agg.finishes)],
     Best |-> IF agg.finishes = << >> THEN Null ELSE VFloat(CHOOSE f \in Elements(agg.finishes) : \A g \in Elements(agg.finishes) : f <= g),
     Podiums |-> agg.podiums]

\* Line 250: the stable sort by Points, highest first.
RECURSIVE SortByPoints(_)
SortByPoints(total_rows) ==
    IF total_rows = << >> THEN << >>
    ELSE LET top == CHOOSE i \in DOMAIN total_rows :
                       /\ \A j \in DOMAIN total_rows : total_rows[j].Points <= total_rows[i].Points
                       /\ \A j \in 1..(i - 1) : total_rows[j].Points < total_rows[i].Points
         IN  <<total_rows[top]>> \o SortByPoints(SubSeq(total_rows, 1, top - 1) \o SubSeq(total_rows, top + 1, Len(total_rows)))

\* Lines 215-250.
Leaderboard(result_rows, scheme) ==
    LET totals_map == TotalsMap(result_rows, 1, PointsKey(scheme), EmptyDict)
    IN  SortByPoints([i \in DOMAIN totals_map |-> TotalRow(totals_map[i][1], totals_map[i][2])])

(* -------------------- series leaderboard: the machine ------------------ *)

MaxRows == 3

\* Result rows as the results table holds them: names with and without
\* blanks, empty and missing names, points that are numbers, numeric text,
\* other text, null or missing, finishes inside and outside the podium.
SeriesRows ==
    {[player |-> VStr(<<"alice">>), points_balanced |-> VInt(2), points_performance |-> VInt(1), finish |-> VInt(1)],
     [player |-> VStr(<<Blank, "alice">>), points_balanced |-> VStr(<<"x">>), finish |-> VInt(4)],
     [player |-> VStr(<<"alice">>), points_balanced |-> VFloat(1), finish |-> VFloat(2)],
     [player |-> VStr(<<"bob">>), points_balanced |-> VInt(3), points_performance |-> Null],
     [player |-> VStr(<<"bob">>), points_balanced |-> VStr(<<"2">>), points_performance |-> VInt(3), finish |-> VInt(3)],
     [player |-> VStr(<<"bob">>), finish |-> VInt(0)],
     [player |-> VStr(<<Blank>>), points_balanced |-> VInt(3), finish |-> VInt(1)],
     [player |-> Null, points_balanced |-> VInt(1), points_performance |-> VInt(1), finish |-> VInt(2)],
     [points_balanced |-> VInt(1), finish |-> VInt(1)]}

InitSeries ==
    /\ op = "start"
    /\ input \in {[result_rows |-> rows, scheme |-> scheme] :
                    rows \in UNION {[1..n -> SeriesRows] : n \in 0..MaxRows},
                    scheme \in {"balanced", "performance"}}
    /\ output = NoOutput
    /\ NoSession

\* render_page computing the leaderboard of the fetched result rows.
ComputeLeaderboard ==
    /\ op = "start"
    /\ output' = [k |-> "leaderboard", total_rows |-> Leaderboard(input.result_rows, input.scheme)]
    /\ op' = "leaderboard"
    /\ UNCHANGED <<input, cache, store, _last_error>>

NextSeries == ComputeLeaderboard

SpecSeries == InitSeries /\ [][NextSeries]_vars

(* -------------------------------- C28 ---------------------------------- *)

\* The rows of the input that carry a player name, and those of one player.
NamedRows == {i \in DOMAIN input.result_rows : PlayerOf(input.result_rows[i]) # << >>}

RowsOf(player) == {i \in NamedRows : PlayerOf(input.result_rows[i]) = player}

\* The points of a row: the selected column when it is a number or numeric
\* text, else 0.
PointsOfRow(row) ==
    LET numbers == Coercions(RecGet(row, PointsKey(input.scheme)))
    IN  IF numbers = {} THEN 0 ELSE CHOOSE n \in numbers : TRUE

\* The float sum of the points of a player's rows among the first n rows.
RECURSIVE PointsUpTo(_, _)
PointsUpTo(player, n) ==
    IF n = 0 THEN 0
    ELSE IF n \in RowsOf(player) THEN FAdd(PointsUpTo(player, n - 1), PointsOfRow(input.result_rows[n]))
    ELSE PointsUpTo(player, n - 1)

\* The rows of a player whose finish is a number from 1 to 3, and those
\* with any finish.
PodiumRows(player) == {i \in RowsOf(player) : LET f == RecGet(input.result_rows[i], "finish") IN f.t \in {"int", "float"} /\ f.v \in 1..3}

FinishRows(player) == {i \in RowsOf(player) : RecGet(input.result_rows[i], "finish") # Null}

RECURSIVE SortedDescending(_)
SortedDescending(values) ==
    IF values = {} THEN << >>
    ELSE LET top == CHOOSE v \in values : \A w \in values : w <= v
         IN  <<top>> \o SortedDescending(values \ {top})

\* Mutant: the window is cut from the oldest cycles.
WindowCycles_oldest(players_df, window) ==
    LET cycles == SortedDescending({players_df[i].cycle.v : i \in {j \in DOMAIN players_df : players_df[j].cycle # Null}})
    IN  Elements(SubSeq(cycles, IF window > Len(cycles) THEN 1 ELSE Len(cycles) - window + 1, Len(cycles)))

\* Lines 92-93: the `window` largest of the cycles that are not missing.
WindowCycles(players_df, window) ==
    LET cycles == SortedDescending({players_df[i].cycle.v : i \in {j \in DOMAIN players_df : players_df[j].cycle # Null}})
    IN  Elements(SubSeq(cycles, 1, IF window > Len(cycles) THEN Len(cycles) ELSE window))

\* The sum of a column over the rows of a frame.
RECURSIVE ColumnSum(_, _, _)
ColumnSum(rows, column, n) == IF n = 0 THEN 0 ELSE ColumnSum(rows, column, n - 1) + rows[n][column]

\* Lines 97-109 for one player: the sums, matches, win_rate as the quotient
\* of wins by matches.replace(0, 1), and the number of distinct brawls.
PlayerStats(player, window_rows) ==
    LET rows == SelectSeq(window_rows, LAMBDA row : row.player = player)
        wins == ColumnSum(rows, "wins", Len(rows))
        losses == ColumnSum(rows, "losses", Len(rows))
        draws == ColumnSum(rows, "draws", Len(rows))
        matches == wins + losses + draws
    IN  [player |-> player, wins |-> wins, losses |-> losses, draws |-> draws, matches |-> matches,
         win_rate |-> [num |-> wins, den |-> IF matches = 0 THEN 1 ELSE matches],
         brawls_played |-> Cardinality({rows[i].tournament_id : i \in DOMAIN rows})]

\* Lines 89-110; groupby lists the players in sorted order.
compute_player_stats(players_df, window) ==
    IF players_df = << >> THEN << >>
    ELSE LET window_cycles == WindowCycles(players_df, window)
             window_rows == SelectSeq(players_df, LAMBDA row : row.cycle # Null /\ row.cycle.v \in window_cycles)
             players == Sorted({window_rows[i].player : i \in DOMAIN window_rows})
         IN  IF window_rows = << >> THEN << >>
             ELSE [i \in DOMAIN players |-> PlayerStats(players[i], window_rows)]

(* ----------------------- brawl dashboard: machine ---------------------- *)

MaxStatsRows == 3

MaxWindow == 2

BrawlRow(cycle, tournament_id, player, wins, losses, draws) ==
    [cycle |-> cycle, tournament_id |-> tournament_id, player |-> player, wins |-> wins, losses |-> losses, draws |-> draws]

\* Player rows of three cycles and of a brawl whose cycle is missing; one
\* row without any match.
BrawlRows ==
    {BrawlRow(VInt(3), 30, "alice", 1, 0, 0), BrawlRow(VInt(3), 31, "alice", 0, 1, 1),
     BrawlRow(VInt(3), 30, "bob", 0, 0, 1), BrawlRow(VInt(2), 20, "alice", 0, 0, 0),
     BrawlRow(VInt(2), 20, "bob", 1, 1, 0), BrawlRow(VInt(1), 10, "alice", 0, 1, 0),
     BrawlRow(VInt(1), 10, "bob", MaxAmount, 0, 0), BrawlRow(Null, 40, "bob", 1, 0, 0)}

InitStats ==
    /\ op = "start"
    /\ input \in {[players_df |-> rows, window |-> window] :
                    rows \in UNION {[1..n -> BrawlRows] : n \in 0..MaxStatsRows},
                    window \in 0..MaxWindow}
    /\ output = NoOutput
    /\ NoSession

ComputePlayerStats ==
    /\ op = "start"
    /\ output' = [k |-> "stats", agg |-> compute_player_stats(input.players_df, input.window)]
    /\ op' = "stats"
    /\ UNCHANGED <<input, cache, store, _last_error>>

NextStats == ComputePlayerStats

SpecStats == InitStats /\ [][NextStats]_vars

(* -------------------------------- C29 ---------------------------------- *)

\* The cycles of the input, and those with fewer than `window` cycles above
\* them.
CyclesOf == {input.players_df[i].cycle.v : i \in {j \in DOMAIN input.players_df : input.players_df[j].cycle # Null}}

RecentCycles == {c \in CyclesOf : Cardinality({d \in CyclesOf : d > c}) < input.window}

\* The rows of a player in the recent cycles.
Counted(player) == {i \in DOMAIN input.players_df : input.players_df[i].player = player /\ input.players_df[i].cycle # Null /\ input.players_df[i].cycle.v \in RecentCycles}

RECURSIVE CountedSum(_, _, _)
CountedSum(player, column, n) ==
    IF n = 0 THEN 0
    ELSE CountedSum(player, column, n - 1) + (IF n \in Counted(player) THEN input.players_df[n][column] ELSE 0)

\* C29: compute_player_stats has one row for every player with a row in
\* the `window` most recent cycles and counts those rows only: wins, losses
\* and draws are their sums, matches = wins + losses + draws, win_rate is
\* wins / matches, and is 0 when matches is 0, and lies between 0 and 1;
\* an empty input gives an empty result.
C29_PlayerStats ==
    op = "stats" =>
        LET agg == output.agg
            n == Len(input.players_df)
        IN  /\ {agg[i].player : i \in DOMAIN agg} = {p \in {"alice", "bob"} : Counted(p) # {}}
            /\ \A i, j \in DOMAIN agg : agg[i].player = agg[j].player => i = j
            /\ \A i \in DOMAIN agg :
                  LET r == agg[i]
                  IN  /\ r.wins = CountedSum(r.player, "wins", n)
                      /\ r.losses = CountedSum(r.player, "losses", n)
                      /\ r.draws = CountedSum(r.player, "draws", n)
                      /\ r.matches = r.wins + r.losses + r.draws
                      /\ r.win_rate.den > 0
                      /\ IF r.matches = 0 THEN r.win_rate.num = 0
                         ELSE r.win_rate.num * r.matches = r.wins * r.win_rate.den
                      /\ 0 <= r.win_rate.num /\ r.win_rate.num <= r.win_rate.den
            /\ input.players_df = << >> => agg = << >>

\* A window of 2 over three cycles: bob's wins of cycle 1 are left out, and
\* alice, whose only counted row has no match, has a win rate of 0.
C29_Witness ==
    /\ op = "stats"
    /\ input.window = 2 /\ CyclesOf = {1, 2, 3}
    /\ Len(output.agg) = 2
    /\ output.agg[1].player = "alice" /\ output.agg[1].matches = 0 /\ output.agg[1].win_rate.num = 0
    /\ output.agg[2].player = "bob" /\ output.agg[2].wins = 0 /\ output.agg[2].matches = 1

\* An empty frame.
C29_WitnessEmpty == op = "stats" /\ input.players_df = << >> /\ output.agg = << >>

(* ------------------------------ setup_page ----------------------------- *)

_ENV_LOADED_FLAG == "_SL_TOOLS_ENV_LOADED"

_FOOTER_RENDERED_FLAG == "_SL_TOOLS_FOOTER"

\* The browser sessions one server process serves.
BrowserSessions == {"s1", "s2", "s3"}

\* The process and what setup_page has done in it: os.environ and each
\* session's st.session_state as the sets of the flags they hold, and the
\* number of times each effect has happened (the footer per session).
Process(environ, session_state, effects) == [environ |-> environ, session_state |-> session_state, effects |-> effects]

NoEffects == [load_dotenv |-> 0, set_page_config |-> 0, page_title |-> "", footer |-> [s \in BrowserSessions |-> 0]]

\* Mutant: the environment flag is not set after loading.
setup_page_flag_not_set(title, session, process) ==
    LET loaded == IF _ENV_LOADED_FLAG \in process.environ THEN process
                  ELSE [process EXCEPT !.effects.load_dotenv = @ + 1]
        configured == [loaded EXCEPT !.effects.set_page_config = @ + 1, !.effects.page_title = title]
    IN  IF _FOOTER_RENDERED_FLAG \in configured.session_state[session] THEN configured
        ELSE [configured EXCEPT !.effects.footer[session] = @ + 1,
                                !.session_state[session] = @ \cup {_FOOTER_RENDERED_FLAG}]

\* Lines 13-35, called in a script run of `session`.
setup_page(title, session, process) ==
    LET loaded == IF _ENV_LOADED_FLAG \in process.environ THEN process
                  ELSE [process EXCEPT !.effects.load_dotenv = @ + 1,
                                       !.environ = @ \cup {_ENV_LOADED_FLAG}]
        configured == [loaded EXCEPT !.effects.set_page_config = @ + 1, !.effects.page_title = title]
    IN  IF _FOOTER_RENDERED_FLAG \in configured.session_state[session] THEN configured
        ELSE [configured EXCEPT !.effects.footer[session] = @ + 1,
                                !.session_state[session] = @ \cup {_FOOTER_RENDERED_FLAG}]

(* ------------------------ setup_page: the machine ---------------------- *)

MaxCalls == 6

PageTitles == {"Splinterlands Tools Hub", "Series Hub", "Tournament Series"}

\* A fresh process with no session state; the flag may come with the
\* environment the process was started in.  `input` counts the calls made.
InitSetup ==
    /\ op = "start"
    /\ input = [calls |-> 0, session |-> "s1", title |-> ""]
    /\ output = NoEffects
    /\ cache = EmptyCache
    /\ store \in {[environ |-> e, session_state |-> [s \in BrowserSessions |-> {}]] : e \in {{}, {_ENV_LOADED_FLAG}}}
    /\ _last_error = "None"

\* A script run of a page in a session: the page calls setup_page.
RunPage ==
    /\ input.calls < MaxCalls
    /\ \E session \in BrowserSessions, title \in PageTitles :
         \E after \in {setup_page(title, session, Process(store.environ, store.session_state, output))} :
            /\ store' = [environ |-> after.environ, session_state |-> after.session_state]
            /\ output' = after.effects
            /\ input' = [calls |-> input.calls + 1, session |-> session, title |-> title]
    /\ op' = "setup_page"
    /\ UNCHANGED <<cache, _last_error>>

NextSetup == RunPage

SpecSetup == InitSetup /\ [][NextSetup]_vars

(* -------------------------------- C30 ---------------------------------- *)

\* C30: over any number of calls of setup_page in one process, load_dotenv
\* has run at most once (once exactly when the flag was not in the
\* environment before the first call), the footer has been rendered at most
\* once in each session (once exactly in a session that called), and the
\* page configuration has been applied once per call, with the title of the
\* last call.
C30_OneTimeEffects ==
    /\ output.load_dotenv <= 1
    /\ \A s \in BrowserSessions : output.footer[s] <= 1
    /\ output.set_page_config = input.calls
    /\ op = "setup_page" =>
          /\ output.page_title = input.title
          /\ output.footer[input.session] = 1
          /\ _ENV_LOADED_FLAG \in store.environ
          /\ _FOOTER_RENDERED_FLAG \in store.session_state[input.session]

\* Several calls in all sessions: one load, one footer each, a page
\* configuration per call.
C30_Witness ==
    /\ op = "setup_page"
    /\ input.calls = MaxCalls
    /\ output.set_page_config = MaxCalls
    /\ output.load_dotenv = 1
    /\ \A s \in BrowserSessions : output.footer[s] = 1

\* The flag came with the environment: nothing is loaded.
C30_WitnessPreset == op = "setup_page" /\ input.calls > 1 /\ output.load_dotenv = 0
====
